---------------------------- MODULE Spec2Model ----------------------------
(***************************************************************************)
(* A model of the Color class of color.ts (src/src/color.ts).              *)
(*                                                                         *)
(* Numbers. A JavaScript number is modelled as an exact rational <<n, d>>  *)
(* in lowest terms with d > 0; NaN is <<0, 0>>.  The rounding of IEEE-754  *)
(* doubles is modelled where the code takes Math.floor of a product that   *)
(* can be an exact integer (Color.mix), see the Dbl* operators.            *)
(*                                                                         *)
(* Strings. A string is a sequence of one-character strings.               *)
(*                                                                         *)
(* Objects. null is <<>> and a populated container is <<value>>.  The HSL  *)
(* containers live in a heap (hsls) because withHue, withSaturation and    *)
(* withLightness write to them in place.                                   *)
(***************************************************************************)
EXTENDS Integers, Sequences, FiniteSets, TLC

VARIABLES
    colors,     \* the Color instances that exist, by identity 1..Len(colors)
    hsls,       \* the heap of HSL objects: hsls[k] is the object [h, s, l]
    made,       \* history: made[i] records the call that returned colors[i]
    result      \* the last call: what was called, on which instance, how it
                \* ended (returned, threw, returned null) and with what

vars == <<colors, hsls, made, result>>

NULL == <<>>
Box(v) == <<v>>
IsNull(c) == c = <<>>
Unbox(c) == c[1]

---------------------------------------------------------------------------
(* Rational arithmetic: JavaScript's number operators.                     *)

NaN == <<0, 0>>
IsNaN(a) == a[2] = 0

Abs(x) == IF x < 0 THEN -x ELSE x

RECURSIVE GCD(_, _)
GCD(a, b) == IF b = 0 THEN a ELSE GCD(b, a % b)

Norm(n, d) ==
    LET g == GCD(Abs(n), Abs(d))
        s == IF d < 0 THEN -1 ELSE 1
    IN  <<(s * n) \div g, (s * d) \div g>>

Num(n) == <<n, 1>>
Frac(n, d) == Norm(n, d)

IsInt(a) == a[2] = 1

RNeg(a) == IF IsNaN(a) THEN NaN ELSE <<-a[1], a[2]>>

RAdd(a, b) ==
    IF IsNaN(a) \/ IsNaN(b) THEN NaN
    ELSE LET g == GCD(a[2], b[2])
         IN  Norm(a[1] * (b[2] \div g) + b[1] * (a[2] \div g), (a[2] \div g) * b[2])

RSub(a, b) == RAdd(a, RNeg(b))

RMul(a, b) ==
    IF IsNaN(a) \/ IsNaN(b) THEN NaN
    ELSE LET g1 == GCD(Abs(a[1]), b[2])
             g2 == GCD(Abs(b[1]), a[2])
         IN  <<(a[1] \div g1) * (b[1] \div g2), (a[2] \div g2) * (b[2] \div g1)>>

\* A value outside the modelled domain: evaluating it stops the model checker.
Unmodelled == CHOOSE x \in {} : TRUE

\* a / b.  0 / 0 is NaN; any other division by zero (JavaScript's Infinity) is
\* outside the modelled domain.
RDiv(a, b) ==
    IF IsNaN(a) \/ IsNaN(b) THEN NaN
    ELSE IF b[1] = 0 THEN (IF a[1] = 0 THEN NaN ELSE Unmodelled)
    ELSE RMul(a, Norm(b[2], b[1]))

\* Comparisons; every comparison with NaN is false.  (Denominators are
\* positive, so a < b iff a[1] * b[2] < b[1] * a[2].)
RLt(a, b) == ~IsNaN(a) /\ ~IsNaN(b) /\ a[1] * b[2] < b[1] * a[2]
RLe(a, b) == ~IsNaN(a) /\ ~IsNaN(b) /\ a[1] * b[2] <= b[1] * a[2]
RGt(a, b) == RLt(b, a)
RGe(a, b) == RLe(b, a)
REq(a, b) == ~IsNaN(a) /\ ~IsNaN(b) /\ a = b

\* Math.max, Math.min: NaN if an argument is NaN.
RMax(a, b) == IF IsNaN(a) \/ IsNaN(b) THEN NaN ELSE IF RLt(a, b) THEN b ELSE a
RMin(a, b) == IF IsNaN(a) \/ IsNaN(b) THEN NaN ELSE IF RLt(b, a) THEN b ELSE a
RMax3(a, b, c) == RMax(RMax(a, b), c)
RMin3(a, b, c) == RMin(RMin(a, b), c)

\* Math.abs, Math.floor, Math.round (round half up: floor(x + 1/2)).
RAbs(a) == IF IsNaN(a) THEN NaN ELSE <<Abs(a[1]), a[2]>>
RFloor(a) == IF IsNaN(a) THEN NaN ELSE Num(a[1] \div a[2])
RRound(a) == RFloor(RAdd(a, <<1, 2>>))

\* n % m: the remainder of the truncated division, with the sign of n.
RTrunc(a) == IF a[1] < 0 THEN Num(-((-a[1]) \div a[2])) ELSE Num(a[1] \div a[2])
RRem(n, m) ==
    IF IsNaN(n) \/ IsNaN(m) \/ m[1] = 0 THEN NaN
    ELSE RSub(n, RMul(m, RTrunc(RDiv(n, m))))

Zero == Num(0)
One == Num(1)

---------------------------------------------------------------------------
(* Strings of characters.                                                  *)

HexDigits == <<"0", "1", "2", "3", "4", "5", "6", "7",
               "8", "9", "a", "b", "c", "d", "e", "f">>

\* The value of one hex digit, upper or lower case; -1 for any other character.
HexVal(c) ==
    CASE c = "0" -> 0 [] c = "1" -> 1 [] c = "2" -> 2 [] c = "3" -> 3
      [] c = "4" -> 4 [] c = "5" -> 5 [] c = "6" -> 6 [] c = "7" -> 7
      [] c = "8" -> 8 [] c = "9" -> 9
      [] c \in {"a", "A"} -> 10 [] c \in {"b", "B"} -> 11
      [] c \in {"c", "C"} -> 12 [] c \in {"d", "D"} -> 13
      [] c \in {"e", "E"} -> 14 [] c \in {"f", "F"} -> 15
      [] OTHER -> -1

IsHexDigit(c) == HexVal(c) >= 0

\* s.substring(from, to) with 0-based from (inclusive) and to (exclusive),
\* both clamped to the length as String.prototype.substring does.
Substring(s, from, to) ==
    LET f == IF from > Len(s) THEN Len(s) ELSE from
        t == IF to > Len(s) THEN Len(s) ELSE to
    IN  IF f >= t THEN <<>> ELSE SubSeq(s, f + 1, t)

\* s.charAt(i), 0-based: "" (here <<>>) beyond the end.
CharAt(s, i) == IF i < Len(s) THEN <<s[i + 1]>> ELSE <<>>

\* Number.prototype.toString(16) of an integer: its hex digits, a leading "-"
\* if negative.  NaN prints as "NaN".  Non-integers are outside the modelled
\* domain (the RGB channels the model builds are integers).
RECURSIVE NatToHex(_)
NatToHex(n) ==
    IF n < 16 THEN <<HexDigits[n + 1]>>
    ELSE Append(NatToHex(n \div 16), HexDigits[(n % 16) + 1])

NumToString16(a) ==
    IF IsNaN(a) THEN <<"N", "a", "N">>
    ELSE IF ~IsInt(a) THEN Unmodelled
    ELSE IF a[1] < 0 THEN <<"-">> \o NatToHex(-a[1])
    ELSE NatToHex(a[1])

\* s.padStart(2, '0')
PadStart2(s) ==
    IF Len(s) >= 2 THEN s
    ELSE IF Len(s) = 1 THEN <<"0">> \o s
    ELSE <<"0", "0">>

\* parseInt(s, 16): skip leading blanks, take an optional sign and an optional
\* 0x prefix, then read the longest run of hex digits; NaN if there is none.
RECURSIVE SkipBlanks(_)
SkipBlanks(s) ==
    IF Len(s) > 0 /\ s[1] = " " THEN SkipBlanks(Tail(s)) ELSE s

RECURSIVE HexPrefixValue(_, _)
HexPrefixValue(s, acc) ==
    IF Len(s) > 0 /\ IsHexDigit(s[1])
    THEN HexPrefixValue(Tail(s), 16 * acc + HexVal(s[1]))
    ELSE acc

ParseInt16(s) ==
    LET Digits(v, neg) ==
            IF Len(v) = 0 \/ ~IsHexDigit(v[1]) THEN NaN
            ELSE IF neg THEN Num(-HexPrefixValue(v, 0))
            ELSE Num(HexPrefixValue(v, 0))
        Unsigned(u, neg) ==
            Digits(IF Len(u) >= 2 /\ u[1] = "0" /\ u[2] \in {"x", "X"}
                   THEN Tail(Tail(u)) ELSE u, neg)
        Signed(t) ==
            Unsigned(IF Len(t) > 0 /\ t[1] \in {"-", "+"} THEN Tail(t) ELSE t,
                     Len(t) > 0 /\ t[1] = "-")
    IN  Signed(SkipBlanks(s))

\* The value of one decimal digit; -1 for any other character.
DecVal(c) == IF c \in { "0", "1", "2", "3", "4", "5", "6", "7", "8", "9" } THEN HexVal(c) ELSE -1

IsDigit(c) == DecVal(c) >= 0

\* The number of leading decimal digits of s, and their value.
RECURSIVE DigitRun(_)
DigitRun(s) == IF Len(s) > 0 /\ IsDigit(s[1]) THEN 1 + DigitRun(Tail(s)) ELSE 0

RECURSIVE DecPrefixValue(_, _)
DecPrefixValue(s, acc) ==
    IF Len(s) > 0 /\ IsDigit(s[1])
    THEN DecPrefixValue(Tail(s), 10 * acc + DecVal(s[1]))
    ELSE acc

RECURSIVE Pow10(_)
Pow10(n) == IF n = 0 THEN 1 ELSE 10 * Pow10(n - 1)

\* parseInt(s) without a radix: skip leading blanks, take an optional sign,
\* then read the longest run of decimal digits; NaN if there is none.  A
\* string with a 0x prefix (read as hexadecimal) is outside the modelled
\* domain.
parseInt(s) ==
    LET Digits(v, neg) ==
            IF Len(v) >= 2 /\ v[1] = "0" /\ v[2] \in {"x", "X"} THEN Unmodelled
            ELSE IF Len(v) = 0 \/ ~IsDigit(v[1]) THEN NaN
            ELSE IF neg THEN Num(-DecPrefixValue(v, 0))
            ELSE Num(DecPrefixValue(v, 0))
        Signed(t) ==
            Digits(IF Len(t) > 0 /\ t[1] \in {"-", "+"} THEN Tail(t) ELSE t,
                   Len(t) > 0 /\ t[1] = "-")
    IN  Signed(SkipBlanks(s))

\* parseFloat(s): skip leading blanks, take an optional sign, then read the
\* longest prefix of the form digits, '.', digits that holds a digit; NaN if
\* there is none.  The value is the exact decimal (the double nearest to it
\* in JavaScript).  Exponents and Infinity are outside the modelled domain.
parseFloat(s) ==
    LET Fraction(whole, f, neg) ==
            IF Len(whole) = 0 /\ DigitRun(f) = 0 THEN NaN
            ELSE IF Len(f) > DigitRun(f) /\ f[DigitRun(f) + 1] \in {"e", "E"} THEN Unmodelled
            ELSE Frac((IF neg THEN -1 ELSE 1) *
                      (DecPrefixValue(whole, 0) * Pow10(DigitRun(f)) + DecPrefixValue(f, 0)),
                      Pow10(DigitRun(f)))
        Digits(v, n, neg) ==
            IF n < Len(v) /\ v[n + 1] = "."
            THEN Fraction(SubSeq(v, 1, n), SubSeq(v, n + 2, Len(v)), neg)
            ELSE IF n < Len(v) /\ v[n + 1] \in {"e", "E"} THEN Unmodelled
            ELSE IF n = 0 THEN (IF Len(v) > 0 /\ v[1] = "I" THEN Unmodelled ELSE NaN)
            ELSE IF neg THEN Num(-DecPrefixValue(v, 0))
            ELSE Num(DecPrefixValue(v, 0))
        Unsigned(u, neg) == Digits(u, DigitRun(u), neg)
        Signed(t) ==
            Unsigned(IF Len(t) > 0 /\ t[1] \in {"-", "+"} THEN Tail(t) ELSE t,
                     Len(t) > 0 /\ t[1] = "-")
    IN  Signed(SkipBlanks(s))

\* Regular expressions of the forms fromString uses: a sequence of literal
\* characters, optional literal characters (c?) and capturing groups ([set]+
\* or [set]+%?).  No character that follows a group or an optional character
\* in these expressions belongs to it, so the greedy match is the only one.
Literal(chars) == [k \in 1..Len(chars) |-> [t |-> "literal", c |-> chars[k]]]
OptionalChar(c) == << [t |-> "optional", c |-> c] >>
Group(set, percent) == << [t |-> "group", set |-> set, percent |-> percent] >>

DigitChars == { "0", "1", "2", "3", "4", "5", "6", "7", "8", "9" }

\* The first position at or after pos of a character outside the set.
RECURSIVE RunEnd(_, _, _)
RunEnd(str, pos, set) ==
    IF pos <= Len(str) /\ str[pos] \in set THEN RunEnd(str, pos + 1, set) ELSE pos

\* The groups captured when the expression from its k-th element on matches
\* str at pos, boxed; NULL if it does not match.
RECURSIVE MatchAt(_, _, _, _, _)
MatchAt(str, regex, k, pos, groups) ==
    IF k > Len(regex) THEN Box(groups)
    ELSE IF regex[k].t = "literal"
    THEN IF pos <= Len(str) /\ str[pos] = regex[k].c
         THEN MatchAt(str, regex, k + 1, pos + 1, groups)
         ELSE NULL
    ELSE IF regex[k].t = "optional"
    THEN MatchAt(str, regex, k + 1,
                 IF pos <= Len(str) /\ str[pos] = regex[k].c THEN pos + 1 ELSE pos, groups)
    ELSE LET e == RunEnd(str, pos, regex[k].set)
             f == IF regex[k].percent /\ e <= Len(str) /\ str[e] = "%" THEN e + 1 ELSE e
         IN  IF e = pos THEN NULL
             ELSE MatchAt(str, regex, k + 1, f, Append(groups, SubSeq(str, pos, f - 1)))

RECURSIVE SearchFrom(_, _, _)
SearchFrom(str, regex, start) ==
    IF start > Len(str) + 1 THEN NULL
    ELSE IF ~IsNull(MatchAt(str, regex, 1, start, <<>>)) THEN MatchAt(str, regex, 1, start, <<>>)
    ELSE SearchFrom(str, regex, start + 1)

\* str.match(regex) for an expression without the g flag: null, or the
\* groups of the leftmost match; groups[k] is stringMatches[k] of the code
\* (stringMatches[0], the whole match, is not used by it).
StringMatch(str, regex) == SearchFrom(str, regex, 1)

\* match.endsWith('%')
EndsWithPercent(match) == Len(match) > 0 /\ match[Len(match)] = "%"

---------------------------------------------------------------------------
(* The converters (static methods of Color).                               *)

RGB(r, g, b) == [r |-> r, g |-> g, b |-> b]
HSL(h, s, l) == [h |-> h, s |-> s, l |-> l]
YUV(y, u, v) == [y |-> y, u |-> u, v |-> v]

\* rgbToHsl from its second statement on: r, g and b are the channels
\* divided by 255.
rgbToHslUnit(r, g, b) ==
    LET max == RMax3(r, g, b)
        min == RMin3(r, g, b)
        l == RDiv(RAdd(max, min), Num(2))
        d == RSub(max, min)
    IN  IF REq(max, min) THEN HSL(Zero, Zero, l)
        ELSE HSL(RDiv(IF REq(max, r)
                      THEN RAdd(RDiv(RSub(g, b), d),
                                IF RLt(g, b) THEN Num(6) ELSE Zero)
                      ELSE IF REq(max, g)
                      THEN RAdd(RDiv(RSub(b, r), d), Num(2))
                      ELSE IF REq(max, b)
                      THEN RAdd(RDiv(RSub(r, g), d), Num(4))
                      ELSE NaN,
                      Num(6)),
                 IF RGt(l, Frac(1, 2))
                 THEN RDiv(d, RSub(RSub(Num(2), max), min))
                 ELSE RDiv(d, RAdd(max, min)),
                 l)

rgbToHsl(rgb) ==
    rgbToHslUnit(RDiv(rgb.r, Num(255)), RDiv(rgb.g, Num(255)), RDiv(rgb.b, Num(255)))

\* rgbToHex without the padding of each channel to two digits.
rgbToHexUnpadded(rgb) ==
    NumToString16(rgb.r) \o NumToString16(rgb.g) \o NumToString16(rgb.b)

rgbToHex(rgb) ==
    PadStart2(NumToString16(rgb.r)) \o
    PadStart2(NumToString16(rgb.g)) \o
    PadStart2(NumToString16(rgb.b))

\* t += 1 if t < 0, then t -= 1 if t > 1
WrapHue(t) ==
    IF RLt(t, Zero)
    THEN (IF RGt(RAdd(t, One), One) THEN RSub(RAdd(t, One), One) ELSE RAdd(t, One))
    ELSE (IF RGt(t, One) THEN RSub(t, One) ELSE t)

\* hue2rgb without its falling segment (1/2 <= t < 2/3).
hue2rgbNoFall(p, q, t0) ==
    LET Segment(t) ==
            IF RLt(t, Frac(1, 6))
            THEN RAdd(p, RMul(RMul(RSub(q, p), Num(6)), t))
            ELSE IF RLt(t, Frac(1, 2)) THEN q
            ELSE p
    IN  Segment(WrapHue(t0))

hue2rgb(p, q, t0) ==
    LET Segment(t) ==
            IF RLt(t, Frac(1, 6))
            THEN RAdd(p, RMul(RMul(RSub(q, p), Num(6)), t))
            ELSE IF RLt(t, Frac(1, 2)) THEN q
            ELSE IF RLt(t, Frac(2, 3))
            THEN RAdd(p, RMul(RMul(RSub(q, p), RSub(Frac(2, 3), t)), Num(6)))
            ELSE p
    IN  Segment(WrapHue(t0))

\* The else branch of hslToRgb (s # 0), once q and p are computed.
hslToRgbChromatic(hsl, q, p) ==
    RGB(RRound(RMul(hue2rgb(p, q, RAdd(hsl.h, Frac(1, 3))), Num(255))),
        RRound(RMul(hue2rgb(p, q, hsl.h), Num(255))),
        RRound(RMul(hue2rgb(p, q, RSub(hsl.h, Frac(1, 3))), Num(255))))

hslToRgb(hsl) ==
    IF REq(hsl.s, Zero)
    THEN RGB(RRound(RMul(hsl.l, Num(255))),
             RRound(RMul(hsl.l, Num(255))),
             RRound(RMul(hsl.l, Num(255))))
    ELSE LET q == IF RLt(hsl.l, Frac(1, 2))
                  THEN RMul(hsl.l, RAdd(One, hsl.s))
                  ELSE RSub(RAdd(hsl.l, hsl.s), RMul(hsl.l, hsl.s))
         IN  hslToRgbChromatic(hsl, q, RSub(RMul(Num(2), hsl.l), q))

hexToRgb(hex0) ==
    LET hex == IF CharAt(hex0, 0) = <<"#">> THEN Substring(hex0, 1, Len(hex0)) ELSE hex0
    IN  RGB(ParseInt16(Substring(hex, 0, 2)),
            ParseInt16(Substring(hex, 2, 4)),
            ParseInt16(Substring(hex, 4, 6)))

hexToHsl(hex) ==
    IF Len(hex) = 0 THEN HSL(Zero, Zero, Zero)
    ELSE rgbToHsl(hexToRgb(hex))

rgbToYuv(rgb) ==
    LET r == RDiv(rgb.r, Num(255))
        g == RDiv(rgb.g, Num(255))
        b == RDiv(rgb.b, Num(255))
    IN  YUV(RAdd(RAdd(RAdd(RMul(Frac(257, 1000), r), RMul(Frac(504, 1000), g)),
                      RMul(Frac(98, 1000), b)), Num(16)),
            RAdd(RAdd(RSub(RMul(Frac(-148, 1000), r), RMul(Frac(291, 1000), g)),
                      RMul(Frac(439, 1000), b)), Num(128)),
            RAdd(RSub(RSub(RMul(Frac(439, 1000), r), RMul(Frac(368, 1000), g)),
                      RMul(Frac(71, 1000), b)), Num(128)))

\* yuvToRgb with Math.floor in the place of Math.round.
yuvToRgbFloor(yuv) ==
    LET y == RSub(yuv.y, Num(16))
        u == RSub(yuv.u, Num(128))
        v == RSub(yuv.v, Num(128))
        Channel(x) == RAbs(RFloor(RMul(x, Num(255))))
    IN  RGB(Channel(RAdd(RMul(Frac(1164, 1000), y), RMul(Frac(1596, 1000), v))),
            Channel(RSub(RSub(RMul(Frac(1164, 1000), y), RMul(Frac(392, 1000), u)),
                         RMul(Frac(813, 1000), v))),
            Channel(RAdd(RMul(Frac(1164, 1000), y), RMul(Frac(2017, 1000), u))))

\* (Channel is Math.abs(Math.round(x * 255)).)
yuvToRgb(yuv) ==
    LET y == RSub(yuv.y, Num(16))
        u == RSub(yuv.u, Num(128))
        v == RSub(yuv.v, Num(128))
        Channel(x) == RAbs(RRound(RMul(x, Num(255))))
    IN  RGB(Channel(RAdd(RMul(Frac(1164, 1000), y), RMul(Frac(1596, 1000), v))),
            Channel(RSub(RSub(RMul(Frac(1164, 1000), y), RMul(Frac(392, 1000), u)),
                         RMul(Frac(813, 1000), v))),
            Channel(RAdd(RMul(Frac(1164, 1000), y), RMul(Frac(2017, 1000), u))))

---------------------------------------------------------------------------
(* Color instances.  A store S is [colors, hsls]: the instances and the    *)
(* heap of HSL objects.  An operation on a store yields [S, err, val]:     *)
(* the store after it, the Error thrown (NoError if none) and the value    *)
(* returned.                                                               *)

NoError == <<>>
Ret(S, v) == [S |-> S, err |-> NoError, val |-> v]
Throw(S, msg) == [S |-> S, err |-> msg, val |-> NULL]
Threw(r) == r.err # NoError

\* JavaScript truthiness of a string|null and of an object|null.
TruthyString(c) == ~IsNull(c) /\ Len(Unbox(c)) > 0
TruthyObject(c) == ~IsNull(c)

\* The HSL object a Color holds (0 if its hslContainer is null).
RefOf(c) == IF IsNull(c.hslContainer) THEN 0 ELSE Unbox(c.hslContainer)

SetColor(S, i, c) == [S EXCEPT !.colors[i] = c]

\* An HSL argument: the object passed (ref, 0 for a fresh object literal) and
\* its fields at the time of the call.
HslLiteral(v) == [ref |-> 0, v |-> v]
HslObject(S, ref) == [ref |-> ref, v |-> S.hsls[ref]]

\* this.hslContainer = hsl: the argument itself is kept, not a copy of it.
StoreHslShared(heap, arg) ==
    IF arg.ref # 0 THEN [hsls |-> heap, ref |-> arg.ref]
    ELSE [hsls |-> Append(heap, arg.v), ref |-> Len(heap) + 1]

\* this.hslContainer = { h: hsl.h, s: hsl.s, l: hsl.l }: a new object that
\* copies the argument's fields.
StoreHslCopy(heap, arg) ==
    [hsls |-> Append(heap, HSL(arg.v.h, arg.v.s, arg.v.l)), ref |-> Len(heap) + 1]

\* new Color(hex, rgb, hsl, yuv, alpha)
\* The constructor with plain ifs in place of the else-if chain: every
\* component supplied is stored.
ConstructEvery(S, hex, rgb, hsl, yuv, alpha) ==
    IF ~(TruthyString(hex) \/ TruthyObject(rgb) \/ TruthyObject(hsl) \/ TruthyObject(yuv))
    THEN Throw(S, <<"One component must be set">>)
    ELSE LET a == IF TruthyObject(hsl) THEN StoreHslCopy(S.hsls, Unbox(hsl))
                  ELSE [hsls |-> S.hsls, ref |-> 0]
         IN  Ret([colors |-> Append(S.colors,
                      [hexContainer |-> IF TruthyString(hex) THEN hex ELSE NULL,
                       rgbContainer |-> IF TruthyObject(rgb)
                                        THEN Box(RGB(Unbox(rgb).r, Unbox(rgb).g, Unbox(rgb).b))
                                        ELSE NULL,
                       hslContainer |-> IF TruthyObject(hsl) THEN Box(a.ref) ELSE NULL,
                       yuvContainer |-> IF TruthyObject(yuv)
                                        THEN Box(YUV(Unbox(yuv).y, Unbox(yuv).u, Unbox(yuv).v))
                                        ELSE NULL,
                       alpha |-> alpha]),
                  hsls |-> a.hsls], Len(S.colors) + 1)

Construct(S, hex, rgb, hsl, yuv, alpha) ==
    IF ~(TruthyString(hex) \/ TruthyObject(rgb) \/ TruthyObject(hsl) \/ TruthyObject(yuv))
    THEN Throw(S, <<"One component must be set">>)
    ELSE LET blank == [hexContainer |-> NULL, rgbContainer |-> NULL,
                       hslContainer |-> NULL, yuvContainer |-> NULL,
                       alpha |-> alpha]
             id == Len(S.colors) + 1
         IN  IF TruthyString(hex)
             THEN Ret([S EXCEPT !.colors = Append(@, [blank EXCEPT !.hexContainer = hex])], id)
             ELSE IF TruthyObject(rgb)
             THEN Ret([S EXCEPT !.colors = Append(@, [blank EXCEPT !.rgbContainer =
                          Box(RGB(Unbox(rgb).r, Unbox(rgb).g, Unbox(rgb).b))])], id)
             ELSE IF TruthyObject(hsl)
             THEN LET a == StoreHslCopy(S.hsls, Unbox(hsl))
                  IN  Ret([colors |-> Append(S.colors, [blank EXCEPT !.hslContainer = Box(a.ref)]),
                           hsls |-> a.hsls], id)
             ELSE Ret([S EXCEPT !.colors = Append(@, [blank EXCEPT !.yuvContainer =
                          Box(YUV(Unbox(yuv).y, Unbox(yuv).u, Unbox(yuv).v))])], id)

\* The calculators: each populates one container of colors[i], or throws.
calculateRGB(S, i) ==
    LET c == S.colors[i]
    IN  IF TruthyObject(c.rgbContainer) THEN Ret(S, NULL)
        ELSE IF TruthyString(c.hexContainer)
        THEN Ret(SetColor(S, i, [c EXCEPT !.rgbContainer = Box(hexToRgb(Unbox(c.hexContainer)))]), NULL)
        ELSE IF TruthyObject(c.hslContainer)
        THEN Ret(SetColor(S, i, [c EXCEPT !.rgbContainer = Box(hslToRgb(S.hsls[RefOf(c)]))]), NULL)
        ELSE Throw(S, <<"Could not calculate RGB values">>)

calculateHex(S, i) ==
    LET c == S.colors[i]
        Converted(rgb) ==
            Ret(SetColor(S, i, [c EXCEPT !.rgbContainer = Box(rgb),
                                         !.hexContainer = Box(rgbToHex(rgb))]), NULL)
    IN  IF TruthyString(c.hexContainer) THEN Ret(S, NULL)
        ELSE IF TruthyObject(c.rgbContainer)
        THEN Ret(SetColor(S, i, [c EXCEPT !.hexContainer = Box(rgbToHex(Unbox(c.rgbContainer)))]), NULL)
        ELSE IF TruthyObject(c.hslContainer)
        THEN Converted(hslToRgb(S.hsls[RefOf(c)]))
        ELSE Throw(S, <<"Could not calculate hex value">>)

calculateHSL(S, i) ==
    LET c == S.colors[i]
        ref == Len(S.hsls) + 1
    IN  IF TruthyObject(c.hslContainer) THEN Ret(S, NULL)
        ELSE IF TruthyString(c.hexContainer)
        THEN Ret([colors |-> [S.colors EXCEPT ![i].hslContainer = Box(ref)],
                  hsls |-> Append(S.hsls, hexToHsl(Unbox(c.hexContainer)))], NULL)
        ELSE IF TruthyObject(c.rgbContainer)
        THEN Ret([colors |-> [S.colors EXCEPT ![i].hslContainer = Box(ref)],
                  hsls |-> Append(S.hsls, rgbToHsl(Unbox(c.rgbContainer)))], NULL)
        ELSE Throw(S, <<"Could not calculate HSL values">>)

calculateYUV(S, i) ==
    LET Then(r) ==
            IF Threw(r) THEN r
            ELSE Ret(SetColor(r.S, i, [r.S.colors[i] EXCEPT !.yuvContainer =
                         Box(rgbToYuv(Unbox(r.S.colors[i].rgbContainer)))]), NULL)
    IN  IF TruthyObject(S.colors[i].yuvContainer) THEN Ret(S, NULL)
        ELSE Then(IF TruthyObject(S.colors[i].rgbContainer) THEN Ret(S, NULL)
                  ELSE calculateRGB(S, i))

\* The getters: calculate if the container is empty, then return it.  (In
\* each, Then is what follows the calculation, r being its outcome.)
GetHex(S, i) ==
    LET Then(r) == IF Threw(r) THEN r ELSE Ret(r.S, Unbox(r.S.colors[i].hexContainer))
    IN  Then(IF TruthyString(S.colors[i].hexContainer) THEN Ret(S, NULL) ELSE calculateHex(S, i))

GetRgb(S, i) ==
    LET Then(r) == IF Threw(r) THEN r ELSE Ret(r.S, Unbox(r.S.colors[i].rgbContainer))
    IN  Then(IF TruthyObject(S.colors[i].rgbContainer) THEN Ret(S, NULL) ELSE calculateRGB(S, i))

\* The hsl getter returns the live HSL object: val is its reference.
GetHslRef(S, i) ==
    LET Then(r) == IF Threw(r) THEN r ELSE Ret(r.S, RefOf(r.S.colors[i]))
    IN  Then(IF TruthyObject(S.colors[i].hslContainer) THEN Ret(S, NULL) ELSE calculateHSL(S, i))

GetHsl(S, i) ==
    LET Then(r) == IF Threw(r) THEN r ELSE Ret(r.S, r.S.hsls[r.val])
    IN  Then(GetHslRef(S, i))

GetYuv(S, i) ==
    LET Then(r) == IF Threw(r) THEN r ELSE Ret(r.S, Unbox(r.S.colors[i].yuvContainer))
    IN  Then(IF TruthyObject(S.colors[i].yuvContainer) THEN Ret(S, NULL) ELSE calculateYUV(S, i))

---------------------------------------------------------------------------
(* Static factories and hex normalisation.                                 *)

\* The characters the pattern /[G-Zg-z]+/ matches.
LettersGZ ==
    {"G", "H", "I", "J", "K", "L", "M", "N", "O", "P", "Q", "R", "S", "T",
     "U", "V", "W", "X", "Y", "Z",
     "g", "h", "i", "j", "k", "l", "m", "n", "o", "p", "q", "r", "s", "t",
     "u", "v", "w", "x", "y", "z"}

\* normalizeHex without the test for a second leading '#'.
normalizeHexSecondHash(source) ==
    IF Len(source) = 0 \/ (\E k \in 1..Len(source) : source[k] \in LettersGZ)
    THEN NULL
    ELSE LET n == IF CharAt(source, 0) = <<"#">> THEN Substring(source, 1, Len(source))
                  ELSE source
         IN  IF Len(n) < 2 THEN NULL
             ELSE IF Len(n) = 2 THEN Box(<<n[1], n[2], n[1], n[2], n[1], n[2]>>)
             ELSE IF Len(n) = 3 THEN Box(<<n[1], n[1], n[2], n[2], n[3], n[3]>>)
             ELSE IF Len(n) # 6 THEN NULL
             ELSE Box(n)

\* Color.normalizeHex(source): null or the normalized string.
normalizeHex(source) ==
    IF Len(source) = 0 \/ (\E k \in 1..Len(source) : source[k] \in LettersGZ)
    THEN NULL
    ELSE LET hash == CharAt(source, 0) = <<"#">>
             n == IF hash THEN Substring(source, 1, Len(source)) ELSE source
         IN  IF hash /\ CharAt(n, 0) = <<"#">> THEN NULL
             ELSE IF Len(n) < 2 THEN NULL
             ELSE IF Len(n) = 2 THEN Box(<<n[1], n[2], n[1], n[2], n[1], n[2]>>)
             ELSE IF Len(n) = 3 THEN Box(<<n[1], n[1], n[2], n[2], n[3], n[3]>>)
             ELSE IF Len(n) # 6 THEN NULL
             ELSE Box(n)

\* fromHex without the test of the normalized value.
fromHexUnchecked(S, hex) == Construct(S, normalizeHex(hex), NULL, NULL, NULL, One)

\* Color.fromHex(hex).
fromHex(S, hex) ==
    LET Then(normalizedHex) ==
            IF ~TruthyString(normalizedHex)
            THEN Throw(S, <<"Invalid hex value: ", hex>>)
            ELSE Construct(S, normalizedHex, NULL, NULL, NULL, One)
    IN  Then(normalizeHex(hex))

\* new Color(hex, rgb, hsl, yuv, alpha): an argument left out (NULL) takes
\* the parameter's default, which is null for the components and 1 for alpha.
NewColor(S, hex, rgb, hsl, yuv, alpha) ==
    Construct(S, hex, rgb, hsl, yuv, IF IsNull(alpha) THEN One ELSE Unbox(alpha))

fromRGB(S, rgb, alpha) == Construct(S, NULL, Box(rgb), NULL, NULL, alpha)
fromHSL(S, hsl, alpha) == Construct(S, NULL, NULL, Box(hsl), NULL, alpha)
fromYUV(S, yuv, alpha) == Construct(S, NULL, NULL, NULL, Box(yuv), alpha)

\* detectType that takes every string of six characters for a hex value.
detectTypeByLength(str) ==
    IF Len(str) = 6 THEN "hex"
    ELSE IF Len(str) >= 4 /\ Substring(str, 0, 4) = <<"r", "g", "b", "a">> THEN "rgba"
    ELSE IF Len(str) >= 3 /\ Substring(str, 0, 3) = <<"r", "g", "b">> THEN "rgb"
    ELSE IF Len(str) >= 4 /\ Substring(str, 0, 4) = <<"h", "s", "l", "a">> THEN "hsla"
    ELSE IF Len(str) >= 3 /\ Substring(str, 0, 3) = <<"h", "s", "l">> THEN "hsl"
    ELSE "str"

\* Color.detectType(str) for a string: a member of the enum ColorType.
detectType(str) ==
    LET firstThreeChars == IF Len(str) >= 3 THEN Substring(str, 0, 3) ELSE <<>>
        firstFourChars == IF Len(str) >= 4 THEN Substring(str, 0, 4) ELSE <<>>
    IN  IF TruthyString(normalizeHex(str)) THEN "hex"
        ELSE IF firstFourChars = <<"r", "g", "b", "a">> THEN "rgba"
        ELSE IF firstThreeChars = <<"r", "g", "b">> THEN "rgb"
        ELSE IF firstFourChars = <<"h", "s", "l", "a">> THEN "hsla"
        ELSE IF firstThreeChars = <<"h", "s", "l">> THEN "hsl"
        ELSE "str"

\* Color.parseAlpha(match)
parseAlpha(match) ==
    IF EndsWithPercent(match)
    THEN RDiv(parseFloat(Substring(match, 0, Len(match) - 1)), Num(100))
    ELSE parseFloat(match)

\* The regular expressions of fromString.
\* /hsl\(([\d.]+), ?([\d.]+)%, ?([\d.]+)%\)/
hslRegex ==
    Literal(<<"h", "s", "l", "(">>) \o Group(DigitChars \cup {"."}, FALSE) \o
    Literal(<<",">>) \o OptionalChar(" ") \o Group(DigitChars \cup {"."}, FALSE) \o
    Literal(<<"%", ",">>) \o OptionalChar(" ") \o Group(DigitChars \cup {"."}, FALSE) \o
    Literal(<<"%", ")">>)

\* /hsla\(([\d.]+), ?([\d.]+)%, ?([\d.]+)%, ?([\d.]+%?)\)/
hslaRegex ==
    Literal(<<"h", "s", "l", "a", "(">>) \o Group(DigitChars \cup {"."}, FALSE) \o
    Literal(<<",">>) \o OptionalChar(" ") \o Group(DigitChars \cup {"."}, FALSE) \o
    Literal(<<"%", ",">>) \o OptionalChar(" ") \o Group(DigitChars \cup {"."}, FALSE) \o
    Literal(<<"%", ",">>) \o OptionalChar(" ") \o Group(DigitChars \cup {"."}, TRUE) \o
    Literal(<<")">>)

\* /rgb\((\d+), ?(\d+), ?(\d+)\)/
rgbRegex ==
    Literal(<<"r", "g", "b", "(">>) \o Group(DigitChars, FALSE) \o
    Literal(<<",">>) \o OptionalChar(" ") \o Group(DigitChars, FALSE) \o
    Literal(<<",">>) \o OptionalChar(" ") \o Group(DigitChars, FALSE) \o
    Literal(<<")">>)

\* /rgba\((\d+), ?(\d+), ?(\d+), ?([\d.]+%?)\)/
rgbaRegex ==
    Literal(<<"r", "g", "b", "a", "(">>) \o Group(DigitChars, FALSE) \o
    Literal(<<",">>) \o OptionalChar(" ") \o Group(DigitChars, FALSE) \o
    Literal(<<",">>) \o OptionalChar(" ") \o Group(DigitChars, FALSE) \o
    Literal(<<",">>) \o OptionalChar(" ") \o Group(DigitChars \cup {"."}, TRUE) \o
    Literal(<<")">>)

\* The object literals fromString builds from the groups.
HslOfMatches(stringMatches) ==
    HSL(RDiv(RRem(parseInt(stringMatches[1]), Num(360)), Num(360)),
        RDiv(parseFloat(stringMatches[2]), Num(100)),
        RDiv(parseFloat(stringMatches[3]), Num(100)))

RgbOfMatches(stringMatches) ==
    RGB(parseInt(stringMatches[1]), parseInt(stringMatches[2]), parseInt(stringMatches[3]))

\* The argument of fromString: null, a Color (by identity) or a string.
NullArg == [color |-> 0, str |-> NULL]
ColorArg(i) == [color |-> i, str |-> NULL]
StringArg(s) == [color |-> 0, str |-> Box(s)]

\* Color.fromString(str): val is the instance returned, 0 for null.
fromString(S, str) ==
    LET Hsl(m) ==
            IF IsNull(m) THEN Ret(S, 0)
            ELSE fromHSL(S, HslLiteral(HslOfMatches(Unbox(m))), One)
        Hsla(m) ==
            IF IsNull(m) THEN Ret(S, 0)
            ELSE fromHSL(S, HslLiteral(HslOfMatches(Unbox(m))), parseAlpha(Unbox(m)[4]))
        Rgb(m) ==
            IF IsNull(m) THEN Ret(S, 0)
            ELSE fromRGB(S, RgbOfMatches(Unbox(m)), One)
        Rgba(m) ==
            IF IsNull(m) THEN Ret(S, 0)
            ELSE fromRGB(S, RgbOfMatches(Unbox(m)), parseAlpha(Unbox(m)[4]))
        Switch(s, type) ==
            CASE type = "hex" -> fromHex(S, s)
              [] type = "hsl" -> Hsl(StringMatch(s, hslRegex))
              [] type = "hsla" -> Hsla(StringMatch(s, hslaRegex))
              [] type = "rgb" -> Rgb(StringMatch(s, rgbRegex))
              [] type = "rgba" -> Rgba(StringMatch(s, rgbaRegex))
              [] OTHER -> Ret(S, 0)
    IN  IF str = NullArg THEN Ret(S, 0)
        ELSE IF str.color # 0 THEN Ret(S, str.color)
        ELSE Switch(Unbox(str.str), detectType(Unbox(str.str)))

---------------------------------------------------------------------------
(* Operations of an instance.                                              *)

\* No clamping at all.
Unclamped(x) == x

\* Math.max(Math.min(x, 1), 0)
Clamp01(x) == RMax(RMin(x, One), Zero)

\* The remainder alone, which keeps the sign of n.
remainderOnly(n, m) == RRem(n, m)

\* ((n % m) + m) % m
modulo(n, m) == RRem(RAdd(RRem(n, m), m), m)

\* (In each operation, Then is what follows the read of this.hsl, g being
\* the outcome of the read.)
darken(S, i, percentage) ==
    LET Then(g) ==
            IF Threw(g) THEN g
            ELSE fromHSL(g.S,
                         HslLiteral(HSL(g.val.h, g.val.s,
                                        Clamp01(RSub(g.val.l, RDiv(percentage, Num(100)))))),
                         g.S.colors[i].alpha)
    IN  Then(GetHsl(S, i))

lighten(S, i, percentage) == darken(S, i, RNeg(percentage))

saturate(S, i, percentage) ==
    LET Then(g) ==
            IF Threw(g) THEN g
            ELSE fromHSL(g.S,
                         HslLiteral(HSL(g.val.h,
                                        Clamp01(RAdd(g.val.s, RDiv(percentage, Num(100)))),
                                        g.val.l)),
                         g.S.colors[i].alpha)
    IN  Then(GetHsl(S, i))

desaturate(S, i, percentage) == saturate(S, i, RNeg(percentage))

shiftHue(S, i, amount) ==
    LET Then(g) ==
            IF Threw(g) THEN g
            ELSE fromHSL(g.S,
                         HslLiteral(HSL(modulo(RAdd(g.val.h, amount), One), g.val.s, g.val.l)),
                         g.S.colors[i].alpha)
    IN  Then(GetHsl(S, i))

\* Color.fromHSL(this.hsl, this.alpha): the receiver's live HSL object is the argument.
clone(S, i) ==
    LET Then(g) ==
            IF Threw(g) THEN g
            ELSE fromHSL(g.S, HslObject(g.S, g.val), g.S.colors[i].alpha)
    IN  Then(GetHslRef(S, i))

\* (Cloned is what follows this.clone(), c being the outcome of the clone.)
withAlpha(S, i, alpha) ==
    LET Cloned(c) ==
            IF Threw(c) THEN c
            ELSE Ret([c.S EXCEPT !.colors[c.val].alpha = alpha], c.val)
    IN  Cloned(clone(S, i))

\* clone.hsl.<field> = value, written into the clone's live HSL object.
WriteHsl(S, id, field, value) ==
    LET Then(g) ==
            IF Threw(g) THEN g
            ELSE Ret([g.S EXCEPT !.hsls[g.val] =
                         IF field = "h" THEN [@ EXCEPT !.h = value]
                         ELSE IF field = "s" THEN [@ EXCEPT !.s = value]
                         ELSE [@ EXCEPT !.l = value]], id)
    IN  Then(GetHslRef(S, id))

ClearHexRgb(S, id) ==
    [S EXCEPT !.colors[id].rgbContainer = NULL, !.colors[id].hexContainer = NULL]

\* The hue written to the receiver itself, and its hex and rgb cleared.
withHueInPlace(S, i, hue) ==
    LET Written(w, id) == IF Threw(w) THEN w ELSE Ret(ClearHexRgb(w.S, i), id)
        Cloned(c) == IF Threw(c) THEN c ELSE Written(WriteHsl(c.S, i, "h", hue), c.val)
    IN  Cloned(clone(S, i))

\* (Written is what follows the write to clone.hsl, w being its outcome.)
withHue(S, i, hue) ==
    LET Written(w, id) == IF Threw(w) THEN w ELSE Ret(ClearHexRgb(w.S, id), id)
        Cloned(c) == IF Threw(c) THEN c ELSE Written(WriteHsl(c.S, c.val, "h", hue), c.val)
    IN  Cloned(clone(S, i))

\* withSaturation on a clone that carries the receiver's hex and rgb, and
\* clears neither.
withSaturationStale(S, i, saturation) ==
    LET Written(w, id) ==
            IF Threw(w) THEN w
            ELSE Ret([w.S EXCEPT !.colors[id].rgbContainer = w.S.colors[i].rgbContainer,
                                 !.colors[id].hexContainer = w.S.colors[i].hexContainer], id)
        Cloned(c) == IF Threw(c) THEN c
                     ELSE Written(WriteHsl(c.S, c.val, "s", saturation), c.val)
    IN  Cloned(clone(S, i))

withSaturation(S, i, saturation) ==
    LET Written(w, id) == IF Threw(w) THEN w ELSE Ret(ClearHexRgb(w.S, id), id)
        Cloned(c) == IF Threw(c) THEN c
                     ELSE Written(WriteHsl(c.S, c.val, "s", saturation), c.val)
    IN  Cloned(clone(S, i))

\* withLightness on a clone that carries the receiver's hex and rgb.
withLightnessStale(S, i, lightness) ==
    LET Written(w, id) ==
            IF Threw(w) THEN w
            ELSE Ret([w.S EXCEPT !.colors[id].rgbContainer = w.S.colors[i].rgbContainer,
                                 !.colors[id].hexContainer = w.S.colors[i].hexContainer], id)
        Cloned(c) == IF Threw(c) THEN c
                     ELSE Written(WriteHsl(c.S, c.val, "l", lightness), c.val)
    IN  Cloned(clone(S, i))

withLightness(S, i, lightness) ==
    LET Cloned(c) == IF Threw(c) THEN c ELSE WriteHsl(c.S, c.val, "l", lightness)
    IN  Cloned(clone(S, i))

\* isRedish with lightness 0.96 still taken as discernible.
isRedishUpTo96(S, i) ==
    LET Then(g) ==
            IF Threw(g) THEN g
            ELSE Ret(g.S,
                     IF RLt(g.val.l, Frac(2, 10)) \/ RGt(g.val.l, Frac(96, 100)) THEN FALSE
                     ELSE IF \/ (RGe(g.val.h, Zero) /\ RLe(g.val.h, Frac(72, 1000)))
                             \/ RGe(g.val.h, Frac(933, 1000))
                     THEN RGt(g.val.s, Frac(201, 1000))
                     ELSE FALSE)
    IN  Then(GetHsl(S, i))

\* isRedish(), isGreenish(): val is the boolean returned.
isRedish(S, i) ==
    LET Then(g) ==
            IF Threw(g) THEN g
            ELSE Ret(g.S,
                     IF RLt(g.val.l, Frac(2, 10)) \/ RGe(g.val.l, Frac(96, 100)) THEN FALSE
                     ELSE IF \/ (RGe(g.val.h, Zero) /\ RLe(g.val.h, Frac(72, 1000)))
                             \/ RGe(g.val.h, Frac(933, 1000))
                     THEN RGt(g.val.s, Frac(201, 1000))
                     ELSE FALSE)
    IN  Then(GetHsl(S, i))

isGreenish(S, i) ==
    LET Then(g) ==
            IF Threw(g) THEN g
            ELSE Ret(g.S,
                     IF RLt(g.val.l, Frac(2, 10)) \/ RGe(g.val.l, Frac(96, 100)) THEN FALSE
                     ELSE IF RGe(g.val.h, Frac(23, 100)) /\ RLe(g.val.h, Frac(469, 1000))
                     THEN RGt(g.val.s, Frac(201, 1000))
                     ELSE FALSE)
    IN  Then(GetHsl(S, i))

\* isWhite(), isBlack(): val is the boolean returned.
isWhite(S, i) ==
    LET Then(g) ==
            IF Threw(g) THEN g
            ELSE Ret(g.S, (REq(g.val.s, One) \/ REq(g.val.s, Zero)) /\ REq(g.val.l, One))
    IN  Then(GetHsl(S, i))

isBlack(S, i) ==
    LET Then(g) ==
            IF Threw(g) THEN g
            ELSE Ret(g.S, (REq(g.val.s, One) \/ REq(g.val.s, Zero)) /\ REq(g.val.l, Zero))
    IN  Then(GetHsl(S, i))

---------------------------------------------------------------------------
(* IEEE-754 double arithmetic for Color.mix.  A double is modelled as      *)
(* [neg, int, frac]: a sign, an integer part and a binary fraction of      *)
(* Limbs limbs of LimbBits bits each (most significant first).  Every      *)
(* operation computes the exact result and rounds it to Mantissa           *)
(* significant bits, ties to even.                                         *)

Mantissa == 53
LimbBits == 16
Limbs == 4

FracBits == Limbs * LimbBits

RECURSIVE Pow2(_)
Pow2(k) == IF k = 0 THEN 1 ELSE 2 * Pow2(k - 1)

LimbBase == Pow2(LimbBits)

RECURSIVE BitLen(_)
BitLen(n) == IF n = 0 THEN 0 ELSE 1 + BitLen(n \div 2)

\* Bit k of a fraction (1 = most significant).
BitAt(frac, k) ==
    (frac[((k - 1) \div LimbBits) + 1] \div Pow2(LimbBits - 1 - ((k - 1) % LimbBits))) % 2

FracIsZero(frac) == \A j \in 1..Len(frac) : frac[j] = 0

LeadingZeros(frac) ==
    IF FracIsZero(frac) THEN FracBits
    ELSE (CHOOSE k \in 1..FracBits :
              BitAt(frac, k) = 1 /\ (\A m \in 1..(k - 1) : BitAt(frac, m) = 0)) - 1

\* The first j limbs of rem / den (0 <= rem < den) and what is left over.
RECURSIVE DivLimbs(_, _, _)
DivLimbs(rem, den, j) ==
    IF j = 0 THEN [frac |-> <<>>, rem |-> rem]
    ELSE LET r == DivLimbs((rem * LimbBase) % den, den, j - 1)
         IN  [frac |-> <<(rem * LimbBase) \div den>> \o r.frac, rem |-> r.rem]

\* frac * d + carry, from limb j down (d >= 0): the limbs and the carry out.
RECURSIVE MulLimbs(_, _, _, _)
MulLimbs(frac, j, d, carry) ==
    IF j = 0 THEN [frac |-> frac, carry |-> carry]
    ELSE LET v == frac[j] * d + carry
         IN  MulLimbs([frac EXCEPT ![j] = v % LimbBase], j - 1, d, v \div LimbBase)

\* frac + amount added to limb j: the limbs and the carry out.
RECURSIVE AddToLimb(_, _, _)
AddToLimb(frac, j, amount) ==
    IF j = 0 \/ amount = 0 THEN [frac |-> frac, carry |-> amount]
    ELSE LET v == frac[j] + amount
         IN  AddToLimb([frac EXCEPT ![j] = v % LimbBase], j - 1, v \div LimbBase)

\* frac + 2^(-k): one unit in bit k (k = 0: one unit of the integer part).
IncAtBit(frac, k) ==
    IF k = 0 THEN [frac |-> frac, carry |-> 1]
    ELSE AddToLimb(frac, ((k - 1) \div LimbBits) + 1,
                   Pow2(LimbBits - 1 - ((k - 1) % LimbBits)))

\* The fraction cut after bit k.
KeepBits(frac, k) ==
    [j \in 1..Len(frac) |->
        IF j * LimbBits <= k THEN frac[j]
        ELSE IF (j - 1) * LimbBits >= k THEN 0
        ELSE frac[j] - (frac[j] % Pow2(j * LimbBits - k))]

\* Round to nearest, ties to even; sticky: the exact value has further non-zero bits.
DblRound(x, sticky) ==
    LET Up(inc) == [x EXCEPT !.frac = inc.frac, !.int = @ + inc.carry]
        Cut(keep, kept) ==
            LET rest == sticky \/ (\E k \in (keep + 2)..FracBits : BitAt(x.frac, k) = 1)
                last == IF keep >= 1 THEN BitAt(x.frac, keep) ELSE x.int % 2
            IN  IF BitAt(x.frac, keep + 1) = 1 /\ (rest \/ last = 1)
                THEN Up(IncAtBit(kept, keep))
                ELSE [x EXCEPT !.frac = kept]
        Keeping(keep) ==
            IF keep >= FracBits THEN (IF sticky THEN Unmodelled ELSE x)
            ELSE Cut(keep, KeepBits(x.frac, keep))
    IN  Keeping(IF x.int > 0 THEN Mantissa - BitLen(x.int)
                ELSE LeadingZeros(x.frac) + Mantissa)

\* w / den for integers w and den > 0
DblQuot(w, den) ==
    LET Divided(q) ==
            DblRound([neg |-> w < 0, int |-> Abs(w) \div den, frac |-> q.frac], q.rem # 0)
    IN  Divided(DivLimbs(Abs(w) % den, den, Limbs))

\* d * x for an integer d
DblTimesInt(d, x) ==
    LET Multiplied(m) ==
            DblRound([neg |-> (d < 0) # x.neg, int |-> x.int * Abs(d) + m.carry,
                      frac |-> m.frac], FALSE)
    IN  Multiplied(MulLimbs(x.frac, Len(x.frac), Abs(d), 0))

\* 1 - 0.frac for a non-zero fraction
OneMinusFrac(frac) ==
    IncAtBit([j \in 1..Len(frac) |-> LimbBase - 1 - frac[j]], FracBits).frac

\* v + y for an integer v
DblPlusInt(v, y) ==
    LET whole == IF y.neg THEN v - y.int ELSE v + y.int
        exact ==
            IF FracIsZero(y.frac)
            THEN [neg |-> whole < 0, int |-> Abs(whole), frac |-> y.frac]
            ELSE IF ~y.neg
            THEN (IF whole >= 0
                  THEN [neg |-> FALSE, int |-> whole, frac |-> y.frac]
                  ELSE [neg |-> TRUE, int |-> -whole - 1, frac |-> OneMinusFrac(y.frac)])
            ELSE (IF whole >= 1
                  THEN [neg |-> FALSE, int |-> whole - 1, frac |-> OneMinusFrac(y.frac)]
                  ELSE [neg |-> TRUE, int |-> -whole, frac |-> y.frac])
    IN  DblRound(exact, FALSE)

\* Math.floor(x), an integer
DblFloor(x) ==
    IF ~x.neg THEN x.int
    ELSE IF FracIsZero(x.frac) THEN -x.int
    ELSE -x.int - 1

---------------------------------------------------------------------------
(* Color.mix                                                               *)

\* An instance the caller never gets hold of is dropped from the store, with
\* the HSL object it held; the instances behind it move up.
Release(S, id) ==
    LET ref == RefOf(S.colors[id])
        shared == \E k \in 1..Len(S.colors) : k # id /\ RefOf(S.colors[k]) = ref
        drop == ref # 0 /\ ~shared
        moved(c) == IF drop /\ RefOf(c) > ref
                    THEN [c EXCEPT !.hslContainer = Box(RefOf(c) - 1)]
                    ELSE c
    IN  [colors |-> [k \in 1..(Len(S.colors) - 1) |->
                        moved(S.colors[IF k < id THEN k ELSE k + 1])],
         hsls |-> IF drop
                  THEN [k \in 1..(Len(S.hsls) - 1) |-> S.hsls[IF k < ref THEN k ELSE k + 1]]
                  ELSE S.hsls]

\* Math.floor(value2 + (value1 - value2) * (weight / 100.0)) in doubles
MixChannel(value1, value2, weight) ==
    IF IsNaN(value1) \/ IsNaN(value2) THEN NaN
    ELSE Num(DblFloor(DblPlusInt(value2[1],
                 DblTimesInt(value1[1] - value2[1], DblQuot(weight, 100)))))

\* The alpha of a mix taken from color1 alone.
mixAlphaOfFirst(alpha1, alpha2, weight) == alpha1

\* const alpha = color2.alpha + (color1.alpha - color2.alpha) * (weight / 100.0)
mixAlpha(alpha1, alpha2, weight) ==
    RAdd(alpha2, RMul(RSub(alpha1, alpha2), Frac(weight, 100)))

\* Color.mix(color1, color2, weight) for an integer weight.  The alpha is
\* computed in exact arithmetic.  (Each local operator is what follows one
\* call of the method, its parameter being the outcome of that call:
\* color1.hex, color2.hex, Color.fromHex(finalHex), .withAlpha(alpha).)
mix(S, color1, color2, weight) ==
    LET pair(hex1, hex2, i) ==
            PadStart2(NumToString16(
                MixChannel(ParseInt16(Substring(hex1, i, i + 2)),
                           ParseInt16(Substring(hex2, i, i + 2)),
                           weight)))
        alpha(T) == mixAlpha(T.colors[color1].alpha, T.colors[color2].alpha, weight)
        WithAlphaDone(w, id) ==
            IF Threw(w) THEN Throw(Release(w.S, id), w.err)
            ELSE Ret(Release(w.S, id), w.val - 1)
        FromHexDone(t, a) ==
            IF Threw(t) THEN t ELSE WithAlphaDone(withAlpha(t.S, t.val, a), t.val)
        Hex2Read(g2, hex1) ==
            IF Threw(g2) THEN g2
            ELSE FromHexDone(fromHex(g2.S, pair(hex1, g2.val, 0) \o pair(hex1, g2.val, 2)
                                               \o pair(hex1, g2.val, 4)),
                             alpha(g2.S))
        Hex1Read(g1) ==
            IF Threw(g1) THEN g1 ELSE Hex2Read(GetHex(g1.S, color2), g1.val)
    IN  Hex1Read(GetHex(S, color1))

mixWith(S, i, color, weight) == mix(S, i, color, weight)

\* The bit operators of shadeBlend on what parseInt returned: an integer
\* within 32 bits, or NaN, which ToInt32 takes to 0.  x >> k is the floor of
\* x / 2^k and x & 0xFF is x modulo 256, also for a negative x.
ToInt32(x) == IF IsNaN(x) THEN 0 ELSE x[1]
ShiftRight(x, k) == ToInt32(x) \div (2 ^ k)
AndFF(x) == x % 256

\* Color.shadeBlend(p, c0, c1); c1 = 0 stands for a call without c1.
\* f and t are parsed from hex.slice(1): hex has no '#', so the slice drops
\* its first digit.  (Read0 and Read1 are what follows the reads of c0.hex
\* and c1.hex; Blended is the return statement.)
shadeBlend(S, p, c0, c1) ==
    LET n == IF RLt(p, Zero) THEN RMul(p, Num(-1)) ELSE p
        Channel(target, from) == RAdd(RRound(RMul(Num(target - from), n)), Num(from))
        Blended(S2, f, t) ==
            fromHex(S2,
                    Substring(NumToString16(
                                  RAdd(RAdd(RAdd(Num(16777216),
                                                 RMul(Channel(ShiftRight(t, 16), ShiftRight(f, 16)),
                                                      Num(65536))),
                                            RMul(Channel(AndFF(ShiftRight(t, 8)),
                                                         AndFF(ShiftRight(f, 8))),
                                                 Num(256))),
                                       Channel(AndFF(ToInt32(t)), AndFF(ToInt32(f))))),
                              1, 64))
        Read1(h, f) ==
            IF Threw(h) THEN h
            ELSE Blended(h.S, f, ParseInt16(Substring(h.val, 1, Len(h.val))))
        Read0(g) ==
            IF Threw(g) THEN g
            ELSE IF c1 # 0
            THEN Read1(GetHex(g.S, c1), ParseInt16(Substring(g.val, 1, Len(g.val))))
            ELSE Blended(g.S, ParseInt16(Substring(g.val, 1, Len(g.val))),
                         ParseInt16(IF RLt(p, Zero) THEN <<"0", "0", "0", "0", "0", "0">>
                                    ELSE <<"F", "F", "F", "F", "F", "F">>))
    IN  Read0(GetHex(S, c0))

---------------------------------------------------------------------------
(* Brightness, contrast and similarity.                                    *)

\* get perceivedBrightness: 0.2126 * r + 0.7152 * g + 0.0722 * b of this.rgb
perceivedBrightness(S, i) ==
    LET Then(g) ==
            IF Threw(g) THEN g
            ELSE Ret(g.S, RAdd(RAdd(RMul(Frac(2126, 10000), g.val.r),
                                    RMul(Frac(7152, 10000), g.val.g)),
                               RMul(Frac(722, 10000), g.val.b)))
    IN  Then(GetRgb(S, i))

\* isDark with < in place of <=.
isDarkBelow(S, i) ==
    LET Then(p) == IF Threw(p) THEN p ELSE Ret(p.S, RLt(p.val, Num(120)))
    IN  Then(perceivedBrightness(S, i))

\* this.isDark(): this.perceivedBrightness <= 120
isDark(S, i) ==
    LET Then(p) == IF Threw(p) THEN p ELSE Ret(p.S, RLe(p.val, Num(120)))
    IN  Then(perceivedBrightness(S, i))

\* this.isLight(): !this.isDark()
isLight(S, i) ==
    LET Then(d) == IF Threw(d) THEN d ELSE Ret(d.S, ~d.val)
    IN  Then(isDark(S, i))

\* contrast that divides the first brightness by the second.
contrastInOrder(S, c0, c1) ==
    LET Lum2(p2, lum1) ==
            IF Threw(p2) THEN p2
            ELSE Ret(p2.S, RDiv(RAdd(lum1, Frac(5, 100)), RAdd(p2.val, Frac(5, 100))))
        Lum1(p1) ==
            IF Threw(p1) THEN p1 ELSE Lum2(perceivedBrightness(p1.S, c1), p1.val)
    IN  Lum1(perceivedBrightness(S, c0))

\* Color.contrast(c0, c1)
contrast(S, c0, c1) ==
    LET Lum2(p2, lum1) ==
            IF Threw(p2) THEN p2
            ELSE Ret(p2.S, RDiv(RAdd(RMax(lum1, p2.val), Frac(5, 100)),
                                RAdd(RMin(lum1, p2.val), Frac(5, 100))))
        Lum1(p1) ==
            IF Threw(p1) THEN p1 ELSE Lum2(perceivedBrightness(p1.S, c1), p1.val)
    IN  Lum1(perceivedBrightness(S, c0))

\* this.contrastTo(color)
contrastTo(S, i, color) == contrast(S, i, color)

\* areSimilar that compares the y channels only.
areSimilarInY(S, color1, color2, accuracy) ==
    LET Yuv2(g2, yuv1) ==
            IF Threw(g2) THEN g2
            ELSE Ret(g2.S, RLe(RAbs(RSub(yuv1.y, g2.val.y)), RSub(One, accuracy)))
        Yuv1(g1) == IF Threw(g1) THEN g1 ELSE Yuv2(GetYuv(g1.S, color2), g1.val)
    IN  Yuv1(GetYuv(S, color1))

\* Color.areSimilar(color1, color2, accuracy)
areSimilar(S, color1, color2, accuracy) ==
    LET Within(yDiff, uDiff, vDiff, invertedAccuracy) ==
            RLe(yDiff, invertedAccuracy) /\ RLe(uDiff, invertedAccuracy)
                /\ RLe(vDiff, invertedAccuracy)
        Yuv2(g2, yuv1) ==
            IF Threw(g2) THEN g2
            ELSE Ret(g2.S, Within(RAbs(RSub(yuv1.y, g2.val.y)),
                                  RAbs(RSub(yuv1.u, g2.val.u)),
                                  RAbs(RSub(yuv1.v, g2.val.v)),
                                  RSub(One, accuracy)))
        Yuv1(g1) == IF Threw(g1) THEN g1 ELSE Yuv2(GetYuv(g1.S, color2), g1.val)
    IN  Yuv1(GetYuv(S, color1))

\* this.isSimilarTo(color, accuracy): an accuracy left out (NULL) is 0.99.
isSimilarTo(S, i, color, accuracy) ==
    areSimilar(S, i, color, IF IsNull(accuracy) THEN Frac(99, 100) ELSE Unbox(accuracy))

---------------------------------------------------------------------------
(* The CSS strings.  A string built from numbers is modelled as the        *)
(* sequence of its pieces, each number standing for its decimal text.      *)

cssHex(S, i) ==
    LET Then(g) == IF Threw(g) THEN g ELSE Ret(g.S, <<"#">> \o g.val)
    IN  Then(GetHex(S, i))

cssRGBA(S, i) ==
    LET Then(g) ==
            IF Threw(g) THEN g
            ELSE Ret(g.S, <<"rgba(", g.val.r, ", ", g.val.g, ", ", g.val.b, ", ",
                            g.S.colors[i].alpha, ")">>)
    IN  Then(GetRgb(S, i))

\* Math.round(x * scale * 10000) / 10000
Round4(x, scale) == RDiv(RRound(RMul(RMul(x, Num(scale)), Num(10000))), Num(10000))

cssHSLA(S, i) ==
    LET Then(g) ==
            IF Threw(g) THEN g
            ELSE Ret(g.S, <<"hsla(", Round4(g.val.h, 360), ", ", Round4(g.val.s, 100), "%, ",
                            Round4(g.val.l, 100), "%, ", g.S.colors[i].alpha, ")">>)
    IN  Then(GetHsl(S, i))

\* toString with the priority hex, rgb, hsl.
toStringHexFirst(S, i) ==
    IF TruthyString(S.colors[i].hexContainer) THEN cssHex(S, i)
    ELSE IF TruthyObject(S.colors[i].rgbContainer) THEN cssRGBA(S, i)
    ELSE cssHSLA(S, i)

toString(S, i) ==
    IF TruthyObject(S.colors[i].hslContainer) THEN cssHSLA(S, i)
    ELSE IF TruthyObject(S.colors[i].rgbContainer) THEN cssRGBA(S, i)
    ELSE IF TruthyString(S.colors[i].hexContainer) THEN cssHex(S, i)
    ELSE cssHSLA(S, i)

---------------------------------------------------------------------------
(* toJSON and fromJSON.  A JavaScript value is [t, v]: its type and, for   *)
(* a number or a string, its value.  An object is the sequence of its      *)
(* <<key, value>> properties.                                              *)

JNumber(x) == [t |-> "number", v |-> x]
JString(s) == [t |-> "string", v |-> s]
JNull == [t |-> "null", v |-> <<>>]
JUndefined == [t |-> "undefined", v |-> <<>>]

\* obj[key]: undefined if the object has no such property
Prop(obj, key) ==
    IF \E k \in 1..Len(obj) : obj[k][1] = key
    THEN obj[CHOOSE k \in 1..Len(obj) : obj[k][1] = key][2]
    ELSE JUndefined

Truthy(x) ==
    CASE x.t = "number" -> ~IsNaN(x.v) /\ x.v # Zero
      [] x.t = "string" -> Len(x.v) > 0
      [] OTHER -> FALSE

\* JSON.stringify(obj): the members in order; a NaN is written as null and an
\* undefined property is left out.
JSONstringify(obj) ==
    LET text(x) == IF x.t = "number" /\ IsNaN(x.v) THEN <<"null">>
                   ELSE IF x.t = "null" THEN <<"null">>
                   ELSE IF x.t = "number" THEN <<"number", x.v>>
                   ELSE <<"string", x.v>>
        kept == SelectSeq(obj, LAMBDA m : m[2].t # "undefined")
    IN  [k \in 1..Len(kept) |-> <<kept[k][1], ":", text(kept[k][2])>>]

\* JSON.parse(text)
JSONparse(text) ==
    LET value(x) == IF x[1] = "null" THEN JNull
                    ELSE IF x[1] = "number" THEN JNumber(x[2])
                    ELSE JString(x[2])
    IN  [k \in 1..Len(text) |-> <<text[k][1], value(text[k][3])>>]

\* this.toJSON(): val is the object
toJSON(S, i) ==
    LET c == S.colors[i]
        OfRgb(g) ==
            Ret(g.S, <<<<"r", JNumber(g.val.r)>>, <<"g", JNumber(g.val.g)>>,
                       <<"b", JNumber(g.val.b)>>, <<"alpha", JNumber(c.alpha)>>>>)
        OfHsl(g) ==
            Ret(g.S, <<<<"h", JNumber(g.val.h)>>, <<"s", JNumber(g.val.s)>>,
                       <<"l", JNumber(g.val.l)>>, <<"alpha", JNumber(c.alpha)>>>>)
        OfHex(g) == IF Threw(g) THEN g ELSE Ret(g.S, <<<<"hex", JString(g.val)>>>>)
    IN  IF TruthyObject(c.rgbContainer) THEN OfRgb(GetRgb(S, i))
        ELSE IF TruthyObject(c.hslContainer) THEN OfHsl(GetHsl(S, i))
        ELSE OfHex(GetHex(S, i))

\* A number argument with a default: the default replaces undefined.
NumberOr(x, default) ==
    IF x.t = "undefined" THEN default
    ELSE IF x.t = "number" THEN x.v
    ELSE Unmodelled

JObject(obj) == [t |-> "object", v |-> obj]

\* Color.fromJSON(json) for json an object, the JSON text of one (a string,
\* never the empty one) or null: val is the new instance, or 0 for null.
fromJSON(S, json) ==
    LET Of(parsed) ==
            IF Truthy(Prop(parsed, "hex"))
            THEN (IF Prop(parsed, "hex").t = "string"
                  THEN fromHex(S, Prop(parsed, "hex").v)
                  ELSE Unmodelled)
            ELSE IF Truthy(Prop(parsed, "h"))
            THEN fromHSL(S, HslLiteral(HSL(NumberOr(Prop(parsed, "h"), NaN),
                                           NumberOr(Prop(parsed, "s"), NaN),
                                           NumberOr(Prop(parsed, "l"), NaN))),
                         NumberOr(Prop(parsed, "alpha"), One))
            ELSE IF Truthy(Prop(parsed, "r"))
            THEN fromRGB(S, RGB(NumberOr(Prop(parsed, "r"), NaN),
                                NumberOr(Prop(parsed, "g"), NaN),
                                NumberOr(Prop(parsed, "b"), NaN)),
                         NumberOr(Prop(parsed, "alpha"), One))
            ELSE Ret(S, 0)
    IN  IF json.t \in {"null", "undefined"} THEN Ret(S, 0)
        ELSE Of(IF json.t = "string" THEN JSONparse(json.v) ELSE json.v)

---------------------------------------------------------------------------
(* The state machine: a caller that creates colours with the factories,    *)
(* reads them, asks the predicates and calls the transformations.          *)

MaxColors == 5

HexInputs ==
    { <<"#", "1", "7", "a">>, <<"1", "-", "2", "-", "3", "-">>, <<"#", "#", "1">> }
RGBInputs == { RGB(Num(0), Num(100), Num(100)), RGB(Num(141), Num(187), Num(54)) }
HSLInputs == { HSL(Zero, One, Frac(1, 2)), HSL(Frac(2, 3), Frac(1, 2), Frac(1, 4)) }
YUVInputs == { YUV(Num(16), Num(128), Num(128)) }
Alphas == { One, Frac(1, 2) }
Percentages == { Num(100), Num(-20), Num(150) }
Amounts == { Num(50) }
HueAmounts == { Frac(-3, 10), Frac(5, 4) }
Hues == { Frac(1, 3) }
Saturations == { Frac(1, 4) }
Lightnesses == { Frac(3, 4) }
Weights == { 29, 50 }

Cur == [colors |-> colors, hsls |-> hsls]

Call(op, recv, other, num, str) ==
    [op |-> op, recv |-> recv, other |-> other, num |-> num, str |-> str]

Outcome(op, recv, status, err, val) ==
    [op |-> op, recv |-> recv, status |-> status, err |-> err, val |-> val]

Returned == Outcome("", 0, "ok", NoError, NULL)

\* The three static instances of the class: WHITE, BLACK, TRANSPARENT.
WHITE == 1
BLACK == 2
TRANSPARENT == 3

Statics ==
    LET Transparent(b) == fromHSL(b.S, HslLiteral(HSL(Zero, Zero, Zero)), Zero).S
        Black(w) == Transparent(fromHex(w.S, <<"#", "0", "0", "0", "0", "0", "0">>))
    IN  Black(fromHex([colors |-> <<>>, hsls |-> <<>>], <<"#", "f", "f", "f", "f", "f", "f">>))

Init ==
    /\ colors = Statics.colors
    /\ hsls = Statics.hsls
    /\ made = << Call("fromHex", 0, 0, NaN, <<"#", "f", "f", "f", "f", "f", "f">>),
                 Call("fromHex", 0, 0, NaN, <<"#", "0", "0", "0", "0", "0", "0">>),
                 Call("fromHSL", 0, 0, Zero, <<>>) >>
    /\ result = Returned

\* A call that returns a new instance, or throws.
Create(r, call) ==
    /\ colors' = r.S.colors
    /\ hsls' = r.S.hsls
    /\ IF Threw(r)
       THEN /\ made' = made
            /\ result' = Outcome(call.op, call.recv, "throw", r.err, NULL)
       ELSE /\ made' = Append(made, call)
            /\ result' = Returned

\* A call that returns a value, or throws.  The value is not recorded: it is
\* what the call leaves in the instance's containers.
Answer(r, op, recv) ==
    /\ colors' = r.S.colors
    /\ hsls' = r.S.hsls
    /\ made' = made
    /\ result' = IF Threw(r) THEN Outcome(op, recv, "throw", r.err, NULL)
                 ELSE Returned

Room == Len(colors) < MaxColors
Instances == 1..Len(colors)
Own == (TRANSPARENT + 1)..Len(colors)

FromHex ==
    \E hex \in HexInputs :
        Room /\ Create(fromHex(Cur, hex), Call("fromHex", 0, 0, NaN, hex))

FromRGB ==
    \E rgb \in RGBInputs, alpha \in Alphas :
        Room /\ Create(fromRGB(Cur, rgb, alpha), Call("fromRGB", 0, 0, alpha, <<>>))

FromHSL ==
    \E hsl \in HSLInputs, alpha \in Alphas :
        Room /\ Create(fromHSL(Cur, HslLiteral(hsl), alpha), Call("fromHSL", 0, 0, alpha, <<>>))

FromYUV ==
    \E yuv \in YUVInputs, alpha \in Alphas :
        Room /\ Create(fromYUV(Cur, yuv, alpha), Call("fromYUV", 0, 0, alpha, <<>>))

ReadHex == \E i \in Own : Answer(GetHex(Cur, i), "hex", i)
ReadRGB == \E i \in Own : Answer(GetRgb(Cur, i), "rgb", i)
ReadHSL == \E i \in Own : Answer(GetHsl(Cur, i), "hsl", i)
ReadYUV == \E i \in Own : Answer(GetYuv(Cur, i), "yuv", i)

IsWhite == \E i \in Own : Answer(isWhite(Cur, i), "isWhite", i)
IsBlack == \E i \in Own : Answer(isBlack(Cur, i), "isBlack", i)

Darken ==
    \E i \in Own, p \in Percentages :
        Room /\ Create(darken(Cur, i, p), Call("darken", i, 0, p, <<>>))

Lighten ==
    \E i \in Own, p \in Percentages :
        Room /\ Create(lighten(Cur, i, p), Call("lighten", i, 0, p, <<>>))

Saturate ==
    \E i \in Own, p \in Amounts :
        Room /\ Create(saturate(Cur, i, p), Call("saturate", i, 0, p, <<>>))

Desaturate ==
    \E i \in Own, p \in Amounts :
        Room /\ Create(desaturate(Cur, i, p), Call("desaturate", i, 0, p, <<>>))

ShiftHue ==
    \E i \in Own, amount \in HueAmounts :
        Room /\ Create(shiftHue(Cur, i, amount), Call("shiftHue", i, 0, amount, <<>>))

WithAlpha ==
    \E i \in Own, alpha \in Alphas :
        Room /\ Create(withAlpha(Cur, i, alpha), Call("withAlpha", i, 0, alpha, <<>>))

WithHue ==
    \E i \in Own, hue \in Hues :
        Room /\ Create(withHue(Cur, i, hue), Call("withHue", i, 0, hue, <<>>))

WithSaturation ==
    \E i \in Own, saturation \in Saturations :
        Room /\ Create(withSaturation(Cur, i, saturation),
                       Call("withSaturation", i, 0, saturation, <<>>))

WithLightness ==
    \E i \in Own, lightness \in Lightnesses :
        Room /\ Create(withLightness(Cur, i, lightness),
                       Call("withLightness", i, 0, lightness, <<>>))

Clone ==
    \E i \in Own :
        Room /\ Create(clone(Cur, i), Call("clone", i, 0, NaN, <<>>))

MixWith ==
    \E i \in Instances, color \in {WHITE, BLACK}, weight \in Weights :
        Room /\ Create(mixWith(Cur, i, color, weight),
                       Call("mixWith", i, color, Num(weight), <<>>))

\* Color.fromJSON(c.toJSON()) and Color.fromJSON(JSON.stringify(c.toJSON()))
RoundTripJSON ==
    \E i \in Own, asString \in BOOLEAN :
        /\ Room
        /\ LET call == Call("fromJSON", i, 0, NaN,
                            IF asString THEN <<"string">> ELSE <<"object">>)
               Parsed(f) ==
                   IF ~Threw(f) /\ f.val = 0
                   THEN /\ colors' = f.S.colors
                        /\ hsls' = f.S.hsls
                        /\ made' = made
                        /\ result' = Outcome("fromJSON", i, "null", NoError, NULL)
                   ELSE Create(f, call)
               Written(j) ==
                   IF Threw(j) THEN Create(j, call)
                   ELSE Parsed(fromJSON(j.S, IF asString THEN JString(JSONstringify(j.val))
                                             ELSE JObject(j.val)))
           IN  Written(toJSON(Cur, i))

Next ==
    \/ FromHex \/ FromRGB \/ FromHSL \/ FromYUV
    \/ ReadHex \/ ReadRGB \/ ReadHSL \/ ReadYUV
    \/ IsWhite \/ IsBlack
    \/ Darken \/ Lighten \/ Saturate \/ Desaturate \/ ShiftHue
    \/ WithAlpha \/ WithHue \/ WithSaturation \/ WithLightness
    \/ Clone \/ MixWith \/ RoundTripJSON

Spec == Init /\ [][Next]_vars

---------------------------------------------------------------------------
(* The conversions over a wide sample of RGB triples: one colour, made     *)
(* from the RGB object or from its hex string, then read, cloned and       *)
(* given an alpha.                                                         *)

SampleChannels == { 0, 1, 54, 127, 128, 141, 187, 255 }

InitConv ==
    \E r \in SampleChannels, g \in SampleChannels, b \in SampleChannels, asHex \in BOOLEAN :
        LET rgb == RGB(Num(r), Num(g), Num(b))
            Made(c) ==
                /\ colors = c.S.colors
                /\ hsls = c.S.hsls
                /\ made = << Call("fromHex", 0, 0, NaN, <<"#", "f", "f", "f", "f", "f", "f">>),
                             Call("fromHex", 0, 0, NaN, <<"#", "0", "0", "0", "0", "0", "0">>),
                             Call("fromHSL", 0, 0, Zero, <<>>),
                             IF asHex THEN Call("fromHex", 0, 0, NaN, rgbToHex(rgb))
                             ELSE Call("fromRGB", 0, 0, One, <<>>) >>
                /\ result = Returned
        IN  Made(IF asHex THEN fromHex(Statics, rgbToHex(rgb)) ELSE fromRGB(Statics, rgb, One))

NextConv == ReadRGB \/ ReadHSL \/ Clone \/ WithAlpha

SpecConv == InitConv /\ [][NextConv]_vars

---------------------------------------------------------------------------
(* The static string functions normalizeHex and detectType over a wide     *)
(* sample of strings: every string over HexAlphabet up to MaxHexLen        *)
(* characters, and longer ones.                                            *)

HexAlphabet == { "#", "7", "f", "g" }
MaxHexLen == 4

RECURSIVE StringsUpTo(_, _)
StringsUpTo(alphabet, n) ==
    IF n = 0 THEN { <<>> }
    ELSE StringsUpTo(alphabet, n - 1) \cup
         { Append(s, c) : s \in StringsUpTo(alphabet, n - 1), c \in alphabet }

LongStrings ==
    { <<"1", "7", "a", "7", "d">>,
      <<"1", "7", "a", "7", "d", "f">>,
      <<"#", "1", "7", "a", "7", "d", "f">>,
      <<"#", "#", "1", "7", "a", "7", "d", "f">>,
      <<"1", "7", "A", "7", "D", "F">>,
      <<"1", "7", "a", "7", "d", "G">>,
      <<"1", "7", "a", "#", "d", "f">>,
      <<"1", "-", "2", "-", "3", "-">>,
      <<"1", "7", "a", "7", "d", "f", "0">>,
      <<"#", "1", "7", "a", "7", "d", "f", "0">>,
      <<"1", "7", "a", "7", "d", "f", "0", "1">>,
      <<"#", "1", "7", "a", "7", "d", "f", "0", "1">>,
      <<"w", "h", "a", "a", "a", "t">>,
      <<"r", "g", "b", "(", "1", ",", "2", ",", "3", ")">>,
      <<"r", "g", "b", "a", "(", "1", ",", "2", ",", "3", ",", "1", ")">>,
      <<"h", "s", "l", "(", "1", ",", "2", "%", ",", "3", "%", ")">>,
      <<"h", "s", "l", "a">>,
      <<"r", "g", "b">>,
      <<"#", "#", "1">> }

HexStrings == StringsUpTo(HexAlphabet, MaxHexLen) \cup LongStrings

\* A call of a static function that creates nothing: the argument and the
\* value returned are recorded.
Applied(op, arg, ret) ==
    /\ result' = Outcome(op, 0, "ok", NoError, [arg |-> arg, ret |-> ret])
    /\ UNCHANGED <<colors, hsls, made>>

NormalizeHex == \E source \in HexStrings : Applied("normalizeHex", source, normalizeHex(source))
DetectType == \E str \in HexStrings : Applied("detectType", str, detectType(str))

NextHex == NormalizeHex \/ DetectType

SpecHex == Init /\ [][NextHex]_vars

---------------------------------------------------------------------------
(* The static factories called on the class as it is after construction,   *)
(* one call at a time.  The caller inspects what the call returned or      *)
(* threw and drops it: the outcome records the argument, the value and the *)
(* store the call left, and the program's store stays as it was.           *)

Tried(op, arg, r) ==
    /\ result' = Outcome(op, 0, IF Threw(r) THEN "throw" ELSE "ok", r.err,
                         [arg |-> arg, ret |-> r.val, colors |-> r.S.colors, hsls |-> r.S.hsls])
    /\ UNCHANGED <<colors, hsls, made>>

TryFromHex == \E hex \in HexStrings : Tried("fromHex", hex, fromHex(Cur, hex))

\* Arguments of the constructor: each may be left out.
Optional(values) == { NULL } \cup { Box(v) : v \in values }
HexArguments == Optional({ <<>>, <<"1", "7", "a", "7", "d", "f">> })
AlphaArguments == Optional(Alphas \cup { Zero })

\* Strings in the formats of CSS, well-formed and not.
CssStrings ==
    { <<"r", "g", "b", "(", "1", ",", "2", ",", "3", ")">>,
      <<"r", "g", "b", "(", "1", "4", "1", ",", " ", "1", "8", "7", ",", " ", "5", "4", ")">>,
      <<"r", "g", "b", "(", "1", ",", " ", " ", "2", ",", "3", ")">>,
      <<"r", "g", "b", "(", "1", ",", "2", ")">>,
      <<"r", "g", "b", "(", "1", ".", "5", ",", "2", ",", "3", ")">>,
      <<"r", "g", "b", "(", "3", "0", "0", ",", "2", ",", "3", ")">>,
      <<"r", "g", "b", "(", "-", "1", ",", "2", ",", "3", ")">>,
      <<"r", "g", "b", "(", "1", ",", "2", ",", "3", ",", "0", ".", "5", ")">>,
      <<"x", "r", "g", "b", "(", "1", ",", "2", ",", "3", ")">>,
      <<"r", "g", "b", "x", "r", "g", "b", "(", "1", ",", "2", ",", "3", ")">>,
      <<"r", "g", "b", "a", "r", "g", "b", "(", "1", ",", "2", ",", "3", ")">>,
      <<"r", "g", "b", "a", "(", "1", ",", "2", ",", "3", ",", "0", ".", "5", ")">>,
      <<"r", "g", "b", "a", "(", "1", ",", " ", "2", ",", " ", "3", ",", " ", "5", "0", "%", ")">>,
      <<"r", "g", "b", "a", "(", "1", ",", "2", ",", "3", ",", ".", ")">>,
      <<"r", "g", "b", "a", "(", "1", ",", "2", ",", "3", ")">>,
      <<"r", "g", "b", "a", "(", "1", ",", "2", ",", "3", ",", "1", ".", "2", ".", "3", ")">>,
      <<"h", "s", "l", "(", "1", "2", "0", ",", "5", "0", "%", ",", "2", "5", "%", ")">>,
      <<"h", "s", "l", "(", "4", "8", "0", ",", " ", "5", "0", "%", ",", " ", "2", "5", "%", ")">>,
      <<"h", "s", "l", "(", "1", "2", "0", ".", "9", ",", "5", "0", "%", ",", "2", "5", "%", ")">>,
      <<"h", "s", "l", "(", ".", ",", "5", "0", "%", ",", "2", "5", "%", ")">>,
      <<"h", "s", "l", "(", "1", "2", "0", ",", "5", "0", ",", "2", "5", ")">>,
      <<"h", "s", "l", "(", "1", "2", "0", ",", "1", "2", ".", "5", "%", ",", ".", "5", "%", ")">>,
      <<"h", "s", "l", "a", "(", "1", "2", "0", ",", "5", "0", "%", ",", "2", "5", "%", ",", "0", ".", "5", ")">>,
      <<"h", "s", "l", "a", "(", "1", "2", "0", ",", " ", "5", "0", "%", ",", " ", "2", "5", "%", ",", " ", "5", "0", "%", ")">>,
      <<"h", "s", "l", "a", "(", "1", "2", "0", ",", "5", "0", "%", ",", "2", "5", "%", ")">>,
      <<"h", "s", "l", "(", "1", "2", "0", ",", "5", "0", "%", ",", "2", "5", "%", ",", "0", ".", "5", ")">>,
      <<"-", "1">>,
      <<"#", "-", "1">>,
      <<" ", "1", "7", "a">> }

StringArguments ==
    { NullArg } \cup { ColorArg(i) : i \in 1..Len(colors) } \cup
    { StringArg(s) : s \in HexStrings \cup CssStrings }

TryFromString == \E str \in StringArguments : Tried("fromString", str, fromString(Cur, str))

\* Objects in the shapes of toJSON, with channels that are zero and not,
\* with keys missing, and with more keys than toJSON writes.
JSONObjects ==
    { <<>>,
      << <<"hex", JString(<<"1", "7", "a", "7", "d", "f">>)>> >>,
      << <<"hex", JString(<<"#", "#", "1">>)>> >>,
      << <<"hex", JString(<<>>)>> >>,
      << <<"h", JNumber(Zero)>>, <<"s", JNumber(One)>>, <<"l", JNumber(Frac(1, 2))>>,
         <<"alpha", JNumber(One)>> >>,
      << <<"h", JNumber(Frac(1, 3))>>, <<"s", JNumber(Frac(1, 2))>>, <<"l", JNumber(Frac(1, 4))>>,
         <<"alpha", JNumber(Frac(1, 2))>> >>,
      << <<"r", JNumber(Zero)>>, <<"g", JNumber(Num(10))>>, <<"b", JNumber(Num(10))>>,
         <<"alpha", JNumber(One)>> >>,
      << <<"r", JNumber(Num(141))>>, <<"g", JNumber(Num(187))>>, <<"b", JNumber(Num(54))>>,
         <<"alpha", JNumber(Frac(1, 2))>> >>,
      << <<"r", JNumber(Num(1))>>, <<"g", JNumber(Num(2))>>, <<"b", JNumber(Num(3))>> >>,
      << <<"h", JNumber(Zero)>>, <<"s", JNumber(One)>>, <<"l", JNumber(Frac(1, 2))>>,
         <<"r", JNumber(Num(255))>>, <<"g", JNumber(Zero)>>, <<"b", JNumber(Zero)>>,
         <<"alpha", JNumber(One)>> >>,
      << <<"alpha", JNumber(One)>> >> }

JSONArguments ==
    { JNull } \cup { JObject(obj) : obj \in JSONObjects } \cup
    { JString(JSONstringify(obj)) : obj \in JSONObjects \ { <<>> } }

TryFromJSON == \E json \in JSONArguments : Tried("fromJSON", json, fromJSON(Cur, json))

TryNew ==
    \E hex \in HexArguments, rgb \in Optional(RGBInputs),
       hsl \in Optional({ HslLiteral(v) : v \in HSLInputs }),
       yuv \in Optional(YUVInputs), alpha \in AlphaArguments :
        Tried("new", [hex |-> hex, rgb |-> rgb, hsl |-> hsl, yuv |-> yuv, alpha |-> alpha],
              NewColor(Cur, hex, rgb, hsl, yuv, alpha))

NextStr == TryFromHex \/ TryNew \/ TryFromString \/ TryFromJSON

SpecStr == Init /\ [][NextStr]_vars

---------------------------------------------------------------------------
(* Two colours, made by the factories from a sample, and the comparisons   *)
(* of brightness, contrast and similarity called on them.  The outcome     *)
(* records the arguments and the value returned.                           *)

Sample(op, str, v, alpha) == [op |-> op, str |-> str, v |-> v, alpha |-> alpha]

\* White, black, a blue, two greys at and above the brightness 120, two
\* colours of the same brightness, a translucent red and black as YUV.
PairSamples ==
    { Sample("fromHex", <<"#", "f", "f", "f">>, <<>>, One),
      Sample("fromHex", <<"0", "0", "0">>, <<>>, One),
      Sample("fromHex", <<"#", "1", "7", "a">>, <<>>, One),
      Sample("fromRGB", <<>>, RGB(Num(120), Num(120), Num(120)), One),
      Sample("fromRGB", <<>>, RGB(Num(120), Num(120), Num(120)), Frac(1, 2)),
      Sample("fromRGB", <<>>, RGB(Num(121), Num(121), Num(121)), One),
      Sample("fromRGB", <<>>, RGB(Num(0), Num(0), Num(130)), One),
      Sample("fromRGB", <<>>, RGB(Num(31), Num(3), Num(9)), One),
      Sample("fromHSL", <<>>, HSL(Zero, One, Frac(1, 2)), Frac(1, 2)),
      Sample("fromYUV", <<>>, YUV(Num(16), Num(128), Num(128)), One) }

FromSample(S, d) ==
    CASE d.op = "fromHex" -> fromHex(S, d.str)
      [] d.op = "fromRGB" -> fromRGB(S, d.v, d.alpha)
      [] d.op = "fromHSL" -> fromHSL(S, HslLiteral(d.v), d.alpha)
      [] d.op = "fromYUV" -> fromYUV(S, d.v, d.alpha)

InitPair ==
    \E d1 \in PairSamples, d2 \in PairSamples :
        LET Made(c) ==
                /\ colors = c.S.colors
                /\ hsls = c.S.hsls
                /\ made = << Call("fromHex", 0, 0, NaN, <<"#", "f", "f", "f", "f", "f", "f">>),
                             Call("fromHex", 0, 0, NaN, <<"#", "0", "0", "0", "0", "0", "0">>),
                             Call("fromHSL", 0, 0, Zero, <<>>),
                             Call(d1.op, 0, 0, d1.alpha, d1.str),
                             Call(d2.op, 0, 0, d2.alpha, d2.str) >>
                /\ result = Returned
        IN  Made(FromSample(FromSample(Statics, d1).S, d2))

Accuracies == { Frac(99, 100), Frac(999, 1000), Frac(1, 2), One }

\* A call that returns a number or a boolean, or throws.
Asked(op, recv, arg, r) ==
    /\ colors' = r.S.colors
    /\ hsls' = r.S.hsls
    /\ made' = made
    /\ result' = Outcome(op, recv, IF Threw(r) THEN "throw" ELSE "ok", r.err,
                         [arg |-> arg, ret |-> r.val])

PerceivedBrightness ==
    \E i \in Own : Asked("perceivedBrightness", i, <<>>, perceivedBrightness(Cur, i))
IsDark == \E i \in Own : Asked("isDark", i, <<>>, isDark(Cur, i))
IsLight == \E i \in Own : Asked("isLight", i, <<>>, isLight(Cur, i))
Contrast ==
    \E c0 \in Own, c1 \in Own : Asked("contrast", 0, <<c0, c1>>, contrast(Cur, c0, c1))
ContrastTo ==
    \E i \in Own, color \in Own : Asked("contrastTo", i, <<color>>, contrastTo(Cur, i, color))
AreSimilar ==
    \E color1 \in Own, color2 \in Own, accuracy \in Accuracies :
        Asked("areSimilar", 0, <<color1, color2, accuracy>>,
              areSimilar(Cur, color1, color2, accuracy))
IsSimilarTo ==
    \E i \in Own, color \in Own, accuracy \in Optional(Accuracies) :
        Asked("isSimilarTo", i, <<color, accuracy>>, isSimilarTo(Cur, i, color, accuracy))

CallToString == \E i \in Own : Asked("toString", i, <<>>, toString(Cur, i))

NextPair ==
    \/ PerceivedBrightness \/ IsDark \/ IsLight
    \/ Contrast \/ ContrastTo \/ AreSimilar \/ IsSimilarTo
    \/ CallToString

SpecPair == InitPair /\ [][NextPair]_vars

---------------------------------------------------------------------------
(* One colour, made by a factory from a sample around the limits of the    *)
(* red and green bands, and the questions isRedish and isGreenish asked of *)
(* it.                                                                     *)

TintHues ==
    { Frac(-1, 10), Zero, Frac(72, 1000), Frac(73, 1000), Frac(229, 1000), Frac(23, 100),
      Frac(1, 3), Frac(469, 1000), Frac(47, 100), Frac(932, 1000), Frac(933, 1000),
      Frac(35, 36), One, Frac(3, 2) }
TintSaturations == { Zero, Frac(201, 1000), Frac(202, 1000), One }
TintLightnesses ==
    { Zero, Frac(199, 1000), Frac(2, 10), Frac(1, 2), Frac(959, 1000), Frac(96, 100), One }

TintSamples ==
    { Sample("fromHSL", <<>>, HSL(h, sat, l), One) :
          h \in TintHues, sat \in TintSaturations, l \in TintLightnesses }
    \cup { Sample("fromHex", <<"#", "f", "0", "0">>, <<>>, One),
           Sample("fromHex", <<"#", "0", "f", "0">>, <<>>, One),
           Sample("fromHex", <<"3", "3", "0", "0", "0", "0">>, <<>>, One),
           Sample("fromRGB", <<>>, RGB(Num(141), Num(187), Num(54)), One),
           Sample("fromYUV", <<>>, YUV(Num(16), Num(128), Num(128)), One) }

InitTint ==
    \E d \in TintSamples :
        LET Made(c) ==
                /\ colors = c.S.colors
                /\ hsls = c.S.hsls
                /\ made = << Call("fromHex", 0, 0, NaN, <<"#", "f", "f", "f", "f", "f", "f">>),
                             Call("fromHex", 0, 0, NaN, <<"#", "0", "0", "0", "0", "0", "0">>),
                             Call("fromHSL", 0, 0, Zero, <<>>),
                             Call(d.op, 0, 0, d.alpha, d.str) >>
                /\ result = Returned
        IN  Made(FromSample(Statics, d))

IsRedish == \E i \in Own : Asked("isRedish", i, <<>>, isRedish(Cur, i))
IsGreenish == \E i \in Own : Asked("isGreenish", i, <<>>, isGreenish(Cur, i))

NextTint == IsRedish \/ IsGreenish

SpecTint == InitTint /\ [][NextTint]_vars

---------------------------------------------------------------------------
(* One colour made by a factory from a sample, and Color.shadeBlend called *)
(* on it and on the static colours.                                        *)

BlendSamples ==
    { Sample("fromHex", <<"#", "1", "7", "a">>, <<>>, One),
      Sample("fromHex", <<"0", "a", "7", "7", "a", "a">>, <<>>, One),
      Sample("fromHex", <<"#", "8", "0", "4", "0", "2", "0">>, <<>>, Frac(1, 2)),
      Sample("fromRGB", <<>>, RGB(Num(141), Num(187), Num(54)), One),
      Sample("fromHSL", <<>>, HSL(Zero, One, Frac(1, 2)), One),
      Sample("fromYUV", <<>>, YUV(Num(16), Num(128), Num(128)), One) }

BlendPercentages ==
    { Zero, One, Num(-1), Frac(1, 2), Frac(-1, 2), Frac(1, 4), Frac(-3, 4) }

InitBlend ==
    \E d \in BlendSamples :
        LET Made(c) ==
                /\ colors = c.S.colors
                /\ hsls = c.S.hsls
                /\ made = << Call("fromHex", 0, 0, NaN, <<"#", "f", "f", "f", "f", "f", "f">>),
                             Call("fromHex", 0, 0, NaN, <<"#", "0", "0", "0", "0", "0", "0">>),
                             Call("fromHSL", 0, 0, Zero, <<>>),
                             Call(d.op, 0, 0, d.alpha, d.str) >>
                /\ result = Returned
        IN  Made(FromSample(Statics, d))

ShadeBlend ==
    \E p \in BlendPercentages, c0 \in Instances, c1 \in {0} \cup Instances :
        Room /\ Create(shadeBlend(Cur, p, c0, c1), Call("shadeBlend", c0, c1, p, <<>>))

NextBlend == ShadeBlend \/ ReadHex \/ ReadRGB

SpecBlend == InitBlend /\ [][NextBlend]_vars

---------------------------------------------------------------------------
(* The static converters between hex, RGB and YUV applied one after the    *)
(* other: a start value (a string of six hex digits, with or without a     *)
(* leading "#", or an RGB triple of integers) and up to MaxConversions     *)
(* conversions of it.  The outcome records the start value, the converters *)
(* applied and the current value with its kind.                            *)

MaxConversions == 2

CodecChannels == { 0, 1, 9, 10, 15, 16, 54, 127, 128, 141, 187, 240, 254, 255 }
CodecDigits == { "0", "7", "a", "F" }

CodecRGBs == { RGB(Num(r), Num(g), Num(b)) : r, g, b \in CodecChannels }
CodecHexes ==
    LET six == { h \in StringsUpTo(CodecDigits, 6) : Len(h) = 6 }
    IN  six \cup { <<"#">> \o h : h \in six }

Chained(op, kind, arg, via, ret) ==
    Outcome(op, 0, "ok", NoError, [kind |-> kind, arg |-> arg, via |-> via, ret |-> ret])

InitCodec ==
    /\ colors = Statics.colors
    /\ hsls = Statics.hsls
    /\ made = << Call("fromHex", 0, 0, NaN, <<"#", "f", "f", "f", "f", "f", "f">>),
                 Call("fromHex", 0, 0, NaN, <<"#", "0", "0", "0", "0", "0", "0">>),
                 Call("fromHSL", 0, 0, Zero, <<>>) >>
    /\ \/ \E hex \in CodecHexes : result = Chained("", "hex", hex, <<>>, hex)
       \/ \E rgb \in CodecRGBs : result = Chained("", "rgb", rgb, <<>>, rgb)

\* The converter op, from one kind of value to another, applied to the
\* current value.
Convert(op, from, to) ==
    /\ result.val.kind = from
    /\ Len(result.val.via) < MaxConversions
    /\ result' = Chained(op, to, result.val.arg, Append(result.val.via, op),
                         CASE op = "hexToRgb" -> hexToRgb(result.val.ret)
                           [] op = "rgbToHex" -> rgbToHex(result.val.ret)
                           [] op = "rgbToYuv" -> rgbToYuv(result.val.ret)
                           [] op = "yuvToRgb" -> yuvToRgb(result.val.ret))
    /\ UNCHANGED <<colors, hsls, made>>

HexToRgb == Convert("hexToRgb", "hex", "rgb")
RgbToHex == Convert("rgbToHex", "rgb", "hex")
RgbToYuv == Convert("rgbToYuv", "rgb", "yuv")
YuvToRgb == Convert("yuvToRgb", "yuv", "rgb")

NextCodec == HexToRgb \/ RgbToHex \/ RgbToYuv \/ YuvToRgb

SpecCodec == InitCodec /\ [][NextCodec]_vars

---------------------------------------------------------------------------
(* What a caller can observe of an instance.                               *)

\* What a getter would return now: <<value>>, or <<>> if it throws.
Val(r) == IF Threw(r) THEN NULL ELSE Box(r.val)

Seen(S, i) ==
    [alpha |-> S.colors[i].alpha,
     hex |-> Val(GetHex(S, i)),
     rgb |-> Val(GetRgb(S, i)),
     hsl |-> Val(GetHsl(S, i))]

HslOf(i) == GetHsl(Cur, i).val
RgbOf(i) == GetRgb(Cur, i).val

Factories == {"fromHex", "fromRGB", "fromHSL", "fromYUV"}
Accessors == {"hex", "rgb", "hsl", "yuv"}
Transformations ==
    {"darken", "lighten", "saturate", "desaturate", "shiftHue", "withAlpha",
     "withHue", "withSaturation", "withLightness", "clone", "mixWith"}

Populated(c) ==
    /\ ~IsNull(c.hexContainer) /\ ~IsNull(c.rgbContainer)
    /\ ~IsNull(c.hslContainer) /\ ~IsNull(c.yuvContainer)

---------------------------------------------------------------------------
(* Two readers of one instance, each reading one accessor, their           *)
(* statements interleaved in any order.  A statement is the test of a      *)
(* container, an assignment to a container (with the conversion on its     *)
(* right-hand side) or the return of the getter.  Each reader has a        *)
(* position: the getter it called (get), the calculate function it is in   *)
(* (in), the statement it is at (pc) and, at an assignment, the container  *)
(* the value is converted from (from); wrote lists its assignments, as     *)
(* <<from, to>>.  The samples are colours of every factory, two of them    *)
(* with a component outside its range, which the factories accept.         *)

RaceSamples ==
    { Sample("fromHex", <<"#", "1", "7", "a">>, <<>>, One),
      Sample("fromHex", <<"1", "-", "2", "-", "3", "-">>, <<>>, One),
      Sample("fromRGB", <<>>, RGB(Num(141), Num(187), Num(54)), One),
      Sample("fromHSL", <<>>, HSL(Zero, One, Frac(1, 2)), One),
      Sample("fromHSL", <<>>, HSL(Frac(2, 3), Frac(1, 2), Frac(1, 4)), Frac(1, 2)),
      Sample("fromHSL", <<>>, HSL(Zero, Zero, Num(2)), One),
      Sample("fromRGB", <<>>, RGB(Num(300), Num(2), Num(3)), One),
      Sample("fromYUV", <<>>, YUV(Num(16), Num(128), Num(128)), One) }

Readers == { 1, 2 }

Reader(get) ==
    [get |-> get, in |-> get, pc |-> "start", from |-> "", wrote |-> <<>>,
     status |-> "", err |-> NoError, ret |-> NULL]

InitRace ==
    \E d \in RaceSamples, get1 \in Accessors, get2 \in Accessors :
        LET Made(c) ==
                /\ colors = c.S.colors
                /\ hsls = c.S.hsls
                /\ made = << Call("fromHex", 0, 0, NaN, <<"#", "f", "f", "f", "f", "f", "f">>),
                             Call("fromHex", 0, 0, NaN, <<"#", "0", "0", "0", "0", "0", "0">>),
                             Call("fromHSL", 0, 0, Zero, <<>>),
                             Call(d.op, 0, 0, d.alpha, d.str) >>
                /\ result = Outcome("read", c.val, "ok", NoError,
                                    [sample |-> d, readers |-> <<Reader(get1), Reader(get2)>>])
        IN  Made(FromSample(Statics, d))

\* The instance the two readers read, and the position of reader k.
Raced == Len(colors)
Me(k) == result.val.readers[k]

\* if (this.<name>Container)
Cached(c, name) ==
    CASE name = "hex" -> TruthyString(c.hexContainer)
      [] name = "rgb" -> TruthyObject(c.rgbContainer)
      [] name = "hsl" -> TruthyObject(c.hslContainer)
      [] name = "yuv" -> TruthyObject(c.yuvContainer)

\* The container each calculate function tests first, and second.
FirstSource(in) == IF in \in { "rgb", "hsl" } THEN "hex" ELSE "rgb"
SecondSource(in) == IF in = "hsl" THEN "rgb" ELSE "hsl"

CouldNot(in) ==
    CASE in = "hex" -> <<"Could not calculate hex value">>
      [] in = "rgb" -> <<"Could not calculate RGB values">>
      [] in = "hsl" -> <<"Could not calculate HSL values">>

\* Reader k has executed a statement: S is the store after it and r the
\* reader's new position.
Moved(k, S, r) ==
    /\ colors' = S.colors
    /\ hsls' = S.hsls
    /\ made' = made
    /\ result' = [result EXCEPT !.val.readers[k] = r]

\* The return from calculate<in>: to the getter's return statement, or, from
\* the calculateRGB that calculateYUV called, to the assignment of
\* calculateYUV.
Leave(r) ==
    IF r.in = r.get THEN [r EXCEPT !.pc = "return"]
    ELSE [r EXCEPT !.in = r.get, !.pc = "assign", !.from = "rgb"]

\* The getter's  if (!this.<get>Container) this.calculate<get>()
GetterTest ==
    \E k \in Readers :
        /\ Me(k).pc = "start"
        /\ Moved(k, Cur, IF Cached(colors[Raced], Me(k).get)
                         THEN [Me(k) EXCEPT !.pc = "return"]
                         ELSE [Me(k) EXCEPT !.pc = "entry"])

\* calculate<in>:  if (this.<in>Container) return
CalcEntry ==
    \E k \in Readers :
        /\ Me(k).pc = "entry"
        /\ Moved(k, Cur, IF Cached(colors[Raced], Me(k).in)
                         THEN Leave(Me(k))
                         ELSE [Me(k) EXCEPT !.pc = "first"])

\* The first test of a source; in calculateYUV it is
\* if (!this.rgbContainer) this.calculateRGB()
TestFirst ==
    \E k \in Readers :
        /\ Me(k).pc = "first"
        /\ Moved(k, Cur,
                 IF Cached(colors[Raced], FirstSource(Me(k).in))
                 THEN [Me(k) EXCEPT !.pc = "assign", !.from = FirstSource(Me(k).in)]
                 ELSE IF Me(k).in = "yuv"
                 THEN [Me(k) EXCEPT !.in = "rgb", !.pc = "entry"]
                 ELSE [Me(k) EXCEPT !.pc = "second"])

\* The else-if test of the other source, and the throw of the else branch.
TestSecond ==
    \E k \in Readers :
        /\ Me(k).pc = "second"
        /\ Moved(k, Cur,
                 IF Cached(colors[Raced], SecondSource(Me(k).in))
                 THEN [Me(k) EXCEPT !.pc = "assign", !.from = SecondSource(Me(k).in)]
                 ELSE [Me(k) EXCEPT !.pc = "done", !.status = "throw",
                                    !.err = CouldNot(Me(k).in)])

\* The store after the assignment of calculate<in> that converts from the
\* container from.  (In calculateHex the assignment from the hsl is
\* this.rgbContainer = Color.hslToRgb(this.hslContainer).)
Converted(S, i, in, from) ==
    LET c == S.colors[i]
        NewHsl(v) == [colors |-> [S.colors EXCEPT ![i].hslContainer = Box(Len(S.hsls) + 1)],
                      hsls |-> Append(S.hsls, v)]
    IN  CASE in = "hex" /\ from = "rgb" ->
                 SetColor(S, i, [c EXCEPT !.hexContainer = Box(rgbToHex(Unbox(c.rgbContainer)))])
          [] in = "hex" /\ from = "hsl" ->
                 SetColor(S, i, [c EXCEPT !.rgbContainer = Box(hslToRgb(S.hsls[RefOf(c)]))])
          [] in = "rgb" /\ from = "hex" ->
                 SetColor(S, i, [c EXCEPT !.rgbContainer = Box(hexToRgb(Unbox(c.hexContainer)))])
          [] in = "rgb" /\ from = "hsl" ->
                 SetColor(S, i, [c EXCEPT !.rgbContainer = Box(hslToRgb(S.hsls[RefOf(c)]))])
          [] in = "hsl" /\ from = "hex" -> NewHsl(hexToHsl(Unbox(c.hexContainer)))
          [] in = "hsl" /\ from = "rgb" -> NewHsl(rgbToHsl(Unbox(c.rgbContainer)))
          [] in = "yuv" /\ from = "rgb" ->
                 SetColor(S, i, [c EXCEPT !.yuvContainer = Box(rgbToYuv(Unbox(c.rgbContainer)))])

\* An assignment to a container.  After the one of calculateHex from the
\* hsl comes the call this.calculateHex(); after every other the function
\* returns.
Assign ==
    \E k \in Readers :
        /\ Me(k).pc = "assign"
        /\ Moved(k, Converted(Cur, Raced, Me(k).in, Me(k).from),
                 IF Me(k).in = "hex" /\ Me(k).from = "hsl"
                 THEN [Me(k) EXCEPT !.pc = "entry", !.wrote = Append(@, <<"hsl", "rgb">>)]
                 ELSE Leave([Me(k) EXCEPT !.wrote = Append(@, <<Me(k).from, Me(k).in>>)]))

\* The getter's  return this.<get>Container
Return ==
    \E k \in Readers :
        /\ Me(k).pc = "return"
        /\ Moved(k, Cur,
                 [Me(k) EXCEPT !.pc = "done", !.status = "ok",
                               !.ret = CASE Me(k).get = "hex" -> colors[Raced].hexContainer
                                         [] Me(k).get = "rgb" -> colors[Raced].rgbContainer
                                         [] Me(k).get = "hsl" -> Box(hsls[RefOf(colors[Raced])])
                                         [] Me(k).get = "yuv" -> colors[Raced].yuvContainer])

NextRace == GetterTest \/ CalcEntry \/ TestFirst \/ TestSecond \/ Assign \/ Return

SpecRace == InitRace /\ [][NextRace]_vars

---------------------------------------------------------------------------
(* C1 *)

\* C1: no read of hex, rgb, hsl or yuv on an instance built by a public
\* factory ends in a 'Could not calculate ...' error: every such read returns.
C1_AccessorsAlwaysReturn ==
    ~( /\ result.status = "throw"
       /\ result.op \in Accessors
       /\ made[result.recv].op \in Factories )

---------------------------------------------------------------------------
(* C2 *)

\* Every container of c that is populated is populated in c2 with the same value.
Kept(c, heap, c2, heap2) ==
    /\ ~IsNull(c.hexContainer) => c2.hexContainer = c.hexContainer
    /\ ~IsNull(c.rgbContainer) => c2.rgbContainer = c.rgbContainer
    /\ ~IsNull(c.yuvContainer) => c2.yuvContainer = c.yuvContainer
    /\ ~IsNull(c.hslContainer) =>
           ~IsNull(c2.hslContainer) /\ heap2[RefOf(c2)] = heap[RefOf(c)]

\* C2: memoization is stable: whatever call is made (a read, a predicate, a
\* transformation), every instance that exists stays, and each of its
\* representations that is populated stays populated with the same value.
C2_MemoizationStable ==
    [][ /\ Len(colors') >= Len(colors)
        /\ \A i \in 1..Len(colors) : Kept(colors[i], hsls, colors'[i], hsls') ]_vars

\* An instance with all four representations populated (three of them by
\* reads), on which withHue has been called.
C2_Witness ==
    \E i \in Own :
        /\ Populated(colors[i])
        /\ \E j \in Own : made[j].op = "withHue" /\ made[j].recv = i

---------------------------------------------------------------------------
(* C3 *)

NoSharedHsl(cs) ==
    \A i \in 1..Len(cs) : \A j \in 1..Len(cs) :
        (i # j /\ RefOf(cs[i]) # 0) => RefOf(cs[i]) # RefOf(cs[j])

\* The step changes neither the fields of instance i nor its HSL object.
Untouched(i) ==
    /\ colors'[i] = colors[i]
    /\ RefOf(colors[i]) # 0 => hsls'[RefOf(colors[i])] = hsls[RefOf(colors[i])]

\* C3: every call leaves the alpha and the hex, rgb and hsl a caller reads
\* of every existing instance as they were; a transformation of a receiver
\* whose hsl can be read returns, and what it returns is a new instance, not
\* the receiver; and no two instances ever hold the same HSL object (so a
\* write to one never shows in another).
C3_ReceiverUnchanged ==
    [][ /\ \A i \in 1..Len(colors) : Untouched(i) \/ Seen(Cur', i) = Seen(Cur, i)
        /\ NoSharedHsl(colors')
        /\ (result'.status = "throw" /\ result'.op \in Transformations) =>
               IsNull(Val(GetHsl(Cur, result'.recv)))
        /\ (Len(colors') > Len(colors) /\ made'[Len(colors')].op \in Transformations) =>
               /\ Len(colors') = Len(colors) + 1
               /\ made'[Len(colors')].recv \in 1..Len(colors) ]_vars

\* withHue has written a new hue into the colour it returned, and the
\* receiver, whose HSL was populated, still has its own hue.
C3_Witness ==
    \E j \in Own :
        /\ made[j].op = "withHue"
        /\ ~IsNull(colors[made[j].recv].hslContainer)
        /\ HslOf(j).h = Frac(1, 3)
        /\ HslOf(made[j].recv).h = Zero

---------------------------------------------------------------------------
(* C4 *)

Css(i) ==
    [cssHex |-> Val(cssHex(Cur, i)),
     cssRGBA |-> Val(cssRGBA(Cur, i)),
     cssHSLA |-> Val(cssHSLA(Cur, i))]

\* C4: Color.fromJSON(c.toJSON()), from the object or from its JSON text,
\* never ends in null or in an error, and the colour it returns has the
\* cssHex, cssRGBA and cssHSLA of c.
C4_JSONRoundTrips ==
    /\ result.op = "fromJSON" => result.status = "ok"
    /\ \A j \in Own : made[j].op = "fromJSON" => Css(j) = Css(made[j].recv)

---------------------------------------------------------------------------
(* C5 *)

\* floor(b + (a - b) * w / 100) in exact arithmetic
FloorBlend(a, b, w) == RFloor(RAdd(b, RDiv(RMul(RSub(a, b), w), Num(100))))

\* C5: each channel of the rgb of A.mixWith(B, w) is
\* floor(b + (a - b) * w / 100) for the channels a of A and b of B.
C5_MixIsFloorBlend ==
    \A j \in Own :
        made[j].op = "mixWith" =>
            LET a == RgbOf(made[j].recv)
                b == RgbOf(made[j].other)
                w == made[j].num
            IN  /\ RgbOf(j).r = FloorBlend(a.r, b.r, w)
                /\ RgbOf(j).g = FloorBlend(a.g, b.g, w)
                /\ RgbOf(j).b = FloorBlend(a.b, b.b, w)

---------------------------------------------------------------------------
(* C6 *)

Within1(a, b) ==
    /\ RLe(RAbs(RSub(a.r, b.r)), One)
    /\ RLe(RAbs(RSub(a.g, b.g)), One)
    /\ RLe(RAbs(RSub(a.b, b.b)), One)

\* C6: for a colour made from an RGB triple (or from its hex string),
\* hslToRgb(rgbToHsl(rgb)) is within 1 of rgb in every channel, and so is the
\* rgb of its clone() and of its withAlpha().
C6_RgbHslRoundTrip ==
    \A i \in Own :
        /\ made[i].op \in {"fromRGB", "fromHex"} =>
               Within1(hslToRgb(rgbToHsl(RgbOf(i))), RgbOf(i))
        /\ (made[i].op \in {"clone", "withAlpha"}
                /\ made[made[i].recv].op \in {"fromRGB", "fromHex"}) =>
               Within1(RgbOf(i), RgbOf(made[i].recv))

\* The clone of the RGB colour (141, 187, 54) has been read as rgb, and it is
\* (141, 187, 54).
C6_Witness ==
    \E i \in Own :
        /\ made[i].op = "clone"
        /\ made[made[i].recv].op = "fromRGB"
        /\ colors[made[i].recv].rgbContainer = Box(RGB(Num(141), Num(187), Num(54)))
        /\ colors[i].rgbContainer = Box(RGB(Num(141), Num(187), Num(54)))

---------------------------------------------------------------------------
(* C7 *)

\* x mod 1, the mathematical one: x - floor(x)
Mod1(x) == RSub(x, RFloor(x))

\* C7: shiftHue(amount) of a colour with hue h in [0, 1) returns a colour
\* with hue (h + amount) mod 1, in [0, 1), and with the saturation, lightness
\* and alpha of the receiver.
C7_ShiftHueWraps ==
    \A j \in Own :
        (made[j].op = "shiftHue"
            /\ RGe(HslOf(made[j].recv).h, Zero) /\ RLt(HslOf(made[j].recv).h, One)) =>
            /\ HslOf(j).h = Mod1(RAdd(HslOf(made[j].recv).h, made[j].num))
            /\ RGe(HslOf(j).h, Zero) /\ RLt(HslOf(j).h, One)
            /\ HslOf(j).s = HslOf(made[j].recv).s
            /\ HslOf(j).l = HslOf(made[j].recv).l
            /\ colors[j].alpha = colors[made[j].recv].alpha

\* Hue 0 shifted by -0.3 is hue 0.7.
C7_Witness ==
    \E j \in Own :
        /\ made[j].op = "shiftHue"
        /\ made[j].num = Frac(-3, 10)
        /\ HslOf(made[j].recv).h = Zero
        /\ HslOf(j).h = Frac(7, 10)

---------------------------------------------------------------------------
(* C8 *)

\* max(0, min(1, x))
Clamped(x) == IF RLt(x, Zero) THEN Zero ELSE IF RGt(x, One) THEN One ELSE x

\* C8: darken(p) returns a colour of lightness max(0, min(1, l - p/100)) and
\* lighten(p) one of lightness max(0, min(1, l + p/100)), l the lightness of
\* the receiver, with the receiver's hue, saturation and alpha; and
\* lighten(p) is darken(-p).
C8_DarkenLighten ==
    /\ \A j \in Own :
           made[j].op \in {"darken", "lighten"} =>
               LET c == HslOf(made[j].recv)
                   d == RDiv(made[j].num, Num(100))
               IN  /\ HslOf(j).l = Clamped(IF made[j].op = "darken"
                                           THEN RSub(c.l, d) ELSE RAdd(c.l, d))
                   /\ HslOf(j).h = c.h
                   /\ HslOf(j).s = c.s
                   /\ colors[j].alpha = colors[made[j].recv].alpha
    /\ \A i \in Own : \A p \in Percentages :
           lighten(Cur, i, p) = darken(Cur, i, RNeg(p))

\* A colour of lightness 1/2 darkened by 150 % has lightness 0.
C8_Witness ==
    \E j \in Own :
        /\ made[j].op = "darken"
        /\ made[j].num = Num(150)
        /\ HslOf(made[j].recv).l = Frac(1, 2)
        /\ HslOf(j).l = Zero

---------------------------------------------------------------------------
(* C9 *)

\* C9: c.darken(100).isBlack() and c.lighten(100).isWhite() are true
\* whatever the hue and saturation of c.
C9_FullyDarkenedIsBlack ==
    \A j \in Own :
        (made[j].op \in {"darken", "lighten"} /\ made[j].num = Num(100)) =>
            IF made[j].op = "darken" THEN isBlack(Cur, j).val ELSE isWhite(Cur, j).val

---------------------------------------------------------------------------
(* C10 *)

SixHexDigits(s) == Len(s) = 6 /\ \A k \in 1..Len(s) : IsHexDigit(s[k])

\* C10: whenever fromHex has made a colour (normalizeHex did not return
\* null), the string normalizeHex returned, which is the colour's hex, is six
\* hexadecimal digits.
C10_NormalizedHex ==
    \A j \in Own :
        made[j].op = "fromHex" =>
            /\ colors[j].hexContainer = normalizeHex(made[j].str)
            /\ SixHexDigits(GetHex(Cur, j).val)

---------------------------------------------------------------------------
(* C11 *)

\* What is left of s after at most one leading '#' is removed.
Unhashed(s) == IF Len(s) > 0 /\ s[1] = "#" THEN Tail(s) ELSE s

\* The mapping by length the claim describes.
ByLength(s) ==
    IF \/ Len(s) = 0
       \/ \E k \in 1..Len(s) : s[k] \in LettersGZ
       \/ (Len(s) >= 2 /\ s[1] = "#" /\ s[2] = "#")
    THEN NULL
    ELSE CASE Len(Unhashed(s)) = 2 ->
                  Box(Unhashed(s) \o Unhashed(s) \o Unhashed(s))
           [] Len(Unhashed(s)) = 3 ->
                  Box(<<Unhashed(s)[1], Unhashed(s)[1], Unhashed(s)[2],
                        Unhashed(s)[2], Unhashed(s)[3], Unhashed(s)[3]>>)
           [] Len(Unhashed(s)) = 6 -> Box(Unhashed(s))
           [] OTHER -> NULL

---------------------------------------------------------------------------
(* C12 *)

\* The store a recorded call left.
Left == [colors |-> result.val.colors, hsls |-> result.val.hsls]

\* C12: fromHex(s) throws 'Invalid hex value: ' followed by s exactly when
\* normalizeHex(s) is null, and then creates no colour; otherwise it returns
\* one new colour whose hex is normalizeHex(s) and whose alpha is 1.
C12_FromHexThrowsOrNormalizes ==
    result.op = "fromHex" =>
        IF IsNull(normalizeHex(result.val.arg))
        THEN /\ result.status = "throw"
             /\ result.err = <<"Invalid hex value: ", result.val.arg>>
             /\ Left = Cur
        ELSE /\ result.status = "ok"
             /\ result.val.ret = Len(colors) + 1
             /\ Len(Left.colors) = Len(colors) + 1
             /\ GetHex(Left, result.val.ret).val = Unbox(normalizeHex(result.val.arg))
             /\ Left.colors[result.val.ret].alpha = One

\* fromHex('##1') has thrown.
C12_Witness ==
    /\ result.op = "fromHex"
    /\ result.val.arg = <<"#", "#", "1">>
    /\ result.status = "throw"

---------------------------------------------------------------------------
(* C13 *)

\* The backing containers of a colour that are populated.
PopulatedContainers(c) ==
    { k \in { "hexContainer", "rgbContainer", "hslContainer", "yuvContainer" } : ~IsNull(c[k]) }

\* C13: the constructor throws 'One component must be set' when none of hex,
\* rgb, hsl, yuv is supplied; a construction that succeeds leaves exactly one
\* of the four containers populated and alpha equal to the value supplied,
\* 1 if none was.
C13_OneContainer ==
    result.op = "new" =>
        /\ (/\ IsNull(result.val.arg.hex) /\ IsNull(result.val.arg.rgb)
            /\ IsNull(result.val.arg.hsl) /\ IsNull(result.val.arg.yuv))
           => (result.status = "throw" /\ result.err = <<"One component must be set">>)
        /\ result.status = "ok" =>
              /\ Len(Left.colors) = Len(colors) + 1
              /\ Cardinality(PopulatedContainers(Left.colors[result.val.ret])) = 1
              /\ Left.colors[result.val.ret].alpha =
                     IF IsNull(result.val.arg.alpha) THEN One ELSE Unbox(result.val.arg.alpha)

\* A construction given both an rgb and an hsl object, and alpha 0, has
\* succeeded.
C13_Witness ==
    /\ result.op = "new"
    /\ result.status = "ok"
    /\ ~IsNull(result.val.arg.rgb)
    /\ ~IsNull(result.val.arg.hsl)
    /\ result.val.arg.alpha = Box(Zero)

---------------------------------------------------------------------------
(* C14 *)

\* The regular expression fromString applies to a string of a type.
RegexOf(type) ==
    CASE type = "hsl" -> hslRegex [] type = "hsla" -> hslaRegex
      [] type = "rgb" -> rgbRegex [] type = "rgba" -> rgbaRegex

\* A string from which fromString has nothing to make: its type is none of
\* hex, rgb, rgba, hsl, hsla, or it does not match the expression of its type.
Unparseable(s) ==
    \/ detectType(s) \notin { "hex", "rgb", "rgba", "hsl", "hsla" }
    \/ detectType(s) # "hex" /\ IsNull(StringMatch(s, RegexOf(detectType(s))))

\* C14: fromString of a string, null or a Color does not throw; it returns
\* the instance it was given, null for null and for a string of no known
\* type or one that does not match the expression of its type, and one new
\* colour otherwise; fromHex accepts every string classified as hex.
C14_FromStringNeverThrows ==
    result.op = "fromString" =>
        /\ result.status = "ok"
        /\ IF result.val.arg.color # 0
           THEN result.val.ret = result.val.arg.color /\ Left = Cur
           ELSE IF IsNull(result.val.arg.str) \/ Unparseable(Unbox(result.val.arg.str))
           THEN result.val.ret = 0 /\ Left = Cur
           ELSE /\ result.val.ret = Len(colors) + 1
                /\ Len(Left.colors) = Len(colors) + 1
                /\ SubSeq(Left.colors, 1, Len(colors)) = colors
        /\ (~IsNull(result.val.arg.str) /\ detectType(Unbox(result.val.arg.str)) = "hex")
           => ~Threw(fromHex(Cur, Unbox(result.val.arg.str)))

\* fromString('hsl(480, 50%, 25%)') has returned a new colour with the HSL
\* values 1/3, 1/2, 1/4.
C14_Witness ==
    /\ result.op = "fromString"
    /\ result.val.arg = StringArg(<<"h", "s", "l", "(", "4", "8", "0", ",", " ", "5", "0", "%", ",", " ", "2", "5", "%", ")">>)
    /\ result.val.ret = Len(colors) + 1
    /\ GetHsl(Left, result.val.ret).val = HSL(Frac(1, 3), Frac(1, 2), Frac(1, 4))

---------------------------------------------------------------------------
(* C15 *)

HasKey(obj, key) == \E k \in 1..Len(obj) : obj[k][1] = key

\* The object fromJSON works on.
ParsedOf(json) == IF json.t = "string" THEN JSONparse(json.v) ELSE json.v

\* The recorded call has returned one new colour.
ReturnedNew ==
    /\ result.status = "ok"
    /\ result.val.ret = Len(colors) + 1
    /\ Len(Left.colors) = Len(colors) + 1

\* The recorded call has ended as the call f did.
EndedAs(f) ==
    /\ result.status = (IF Threw(f) THEN "throw" ELSE "ok")
    /\ result.err = f.err
    /\ Left = f.S

\* C15: fromJSON goes by the keys of the object: with a hex key the result
\* is that of fromHex of it, else with an h key an HSL colour with the
\* object's alpha, else with an r key an RGB colour with the object's alpha;
\* null only for a falsy argument or an object with none of the three keys.
C15_FromJSONByKey ==
    result.op = "fromJSON" =>
        IF result.val.arg.t = "null"
        THEN result.status = "ok" /\ result.val.ret = 0
        ELSE IF HasKey(ParsedOf(result.val.arg), "hex")
        THEN EndedAs(fromHex(Cur, Prop(ParsedOf(result.val.arg), "hex").v))
        ELSE IF HasKey(ParsedOf(result.val.arg), "h")
        THEN /\ ReturnedNew
             /\ ~IsNull(Left.colors[result.val.ret].hslContainer)
             /\ Left.colors[result.val.ret].alpha =
                    NumberOr(Prop(ParsedOf(result.val.arg), "alpha"), One)
        ELSE IF HasKey(ParsedOf(result.val.arg), "r")
        THEN /\ ReturnedNew
             /\ ~IsNull(Left.colors[result.val.ret].rgbContainer)
             /\ Left.colors[result.val.ret].alpha =
                    NumberOr(Prop(ParsedOf(result.val.arg), "alpha"), One)
        ELSE result.status = "ok" /\ result.val.ret = 0

---------------------------------------------------------------------------
(* C16 *)

\* b + (a - b) * w / 100
Blend(a, b, w) == RAdd(b, RDiv(RMul(RSub(a, b), w), Num(100)))

---------------------------------------------------------------------------
(* C17 *)

\* The two colours of the recorded contrast call.
First == IF result.op = "contrastTo" THEN result.recv ELSE result.val.arg[1]
Second == IF result.op = "contrastTo" THEN result.val.arg[1] ELSE result.val.arg[2]

\* The perceived brightness of an instance.
Brightness(i) == perceivedBrightness(Cur, i).val
Dim(i) == Threw(perceivedBrightness(Cur, i))

\* (max(l0, l1) + 0.05) / (min(l0, l1) + 0.05)
Ratio(l0, l1) == RDiv(RAdd(RMax(l0, l1), Frac(5, 100)), RAdd(RMin(l0, l1), Frac(5, 100)))

\* C17: contrast(c0, c1) is (max(L0, L1) + 0.05) / (min(L0, L1) + 0.05), L
\* the perceived brightness; contrast(c1, c0) and c0.contrastTo(c1) are the
\* same number; it is never below 1, and it is 1 when L0 = L1 (so for
\* contrast(X, X)).  A contrast call throws only if reading a perceived
\* brightness does.
C17_ContrastRatio ==
    result.op \in { "contrast", "contrastTo" } =>
        IF Dim(First) \/ Dim(Second)
        THEN result.status = "throw"
        ELSE /\ result.status = "ok"
             /\ result.val.ret = Ratio(Brightness(First), Brightness(Second))
             /\ result.val.ret = contrast(Cur, Second, First).val
             /\ result.val.ret = contrastTo(Cur, First, Second).val
             /\ result.val.ret = contrast(Cur, First, Second).val
             /\ RGe(result.val.ret, One)
             /\ Brightness(First) = Brightness(Second) => result.val.ret = One
             /\ First = Second => result.val.ret = One

\* The contrast of rgb(0, 0, 130) and rgb(31, 3, 9), two colours of the
\* perceived brightness 9.386, has been computed: it is 1.
C17_Witness ==
    /\ result.op = "contrast"
    /\ result.status = "ok"
    /\ RgbOf(First) = RGB(Num(0), Num(0), Num(130))
    /\ RgbOf(Second) = RGB(Num(31), Num(3), Num(9))
    /\ result.val.ret = One

---------------------------------------------------------------------------
(* C18 *)

\* C18: the contrast ratio that contrast and contrastTo return is at least
\* 1 and at most 21.
C18_ContrastWithin21 ==
    (result.op \in { "contrast", "contrastTo" } /\ result.status = "ok") =>
        RGe(result.val.ret, One) /\ RLe(result.val.ret, Num(21))

---------------------------------------------------------------------------
(* C19 *)

\* 0.2126 * r + 0.7152 * g + 0.0722 * b
Weighted(rgb) ==
    RAdd(RAdd(RMul(Frac(2126, 10000), rgb.r), RMul(Frac(7152, 10000), rgb.g)),
         RMul(Frac(722, 10000), rgb.b))

\* this.withAlpha(alpha).isDark()
DarkWithAlpha(i, alpha) ==
    isDark(withAlpha(Cur, i, alpha).S, Len(colors) + 1).val

\* C19: isDark() is true exactly when 0.2126 r + 0.7152 g + 0.0722 b, the
\* perceived brightness, is at most 120; isLight() is its negation, so
\* exactly one of the two is true; neither depends on alpha; and the
\* perceived brightness is within 0 and 255.  The three throw only if
\* reading rgb does.
C19_DarkIffAtMost120 ==
    result.op \in { "isDark", "isLight", "perceivedBrightness" } =>
        IF Threw(GetRgb(Cur, result.recv))
        THEN result.status = "throw"
        ELSE /\ result.status = "ok"
             /\ Brightness(result.recv) = Weighted(RgbOf(result.recv))
             /\ RGe(Brightness(result.recv), Zero)
             /\ RLe(Brightness(result.recv), Num(255))
             /\ isDark(Cur, result.recv).val = RLe(Weighted(RgbOf(result.recv)), Num(120))
             /\ isLight(Cur, result.recv).val = ~isDark(Cur, result.recv).val
             /\ result.val.ret =
                    CASE result.op = "isDark" -> RLe(Weighted(RgbOf(result.recv)), Num(120))
                      [] result.op = "isLight" -> ~RLe(Weighted(RgbOf(result.recv)), Num(120))
                      [] OTHER -> Weighted(RgbOf(result.recv))
             /\ \A alpha \in { Zero, Frac(1, 2), One } :
                    DarkWithAlpha(result.recv, alpha) = isDark(Cur, result.recv).val

\* isDark() of the half-transparent rgb(120, 120, 120), whose perceived
\* brightness is exactly 120, has returned true.
C19_Witness ==
    /\ result.op = "isDark"
    /\ result.status = "ok"
    /\ RgbOf(result.recv) = RGB(Num(120), Num(120), Num(120))
    /\ colors[result.recv].alpha = Frac(1, 2)
    /\ result.val.ret = TRUE

---------------------------------------------------------------------------
(* C20 *)

\* The colours and the accuracy of the recorded similarity call.
Color1 == IF result.op = "isSimilarTo" THEN result.recv ELSE result.val.arg[1]
Color2 == IF result.op = "isSimilarTo" THEN result.val.arg[1] ELSE result.val.arg[2]
Accuracy ==
    IF result.op = "areSimilar" THEN result.val.arg[3]
    ELSE IF IsNull(result.val.arg[2]) THEN Frac(99, 100)
    ELSE Unbox(result.val.arg[2])

YuvOf(i) == GetYuv(Cur, i).val

\* Each of |y1 - y2|, |u1 - u2|, |v1 - v2| is at most 1 - accuracy.
AllWithin(yuv1, yuv2, accuracy) ==
    \A k \in { "y", "u", "v" } : RLe(RAbs(RSub(yuv1[k], yuv2[k])), RSub(One, accuracy))

\* C20: areSimilar(c1, c2, accuracy), and equally c1.isSimilarTo(c2,
\* accuracy), is true exactly when each of the three absolute differences of
\* the YUV channels is at most 1 - accuracy; it is the same for (c2, c1); a
\* colour is similar to itself at accuracy 1; and what is similar at an
\* accuracy is similar at every lower one.
C20_SimilarIffAllWithin ==
    result.op \in { "areSimilar", "isSimilarTo" } =>
        /\ result.status = "ok"
        /\ result.val.ret = AllWithin(YuvOf(Color1), YuvOf(Color2), Accuracy)
        /\ result.val.ret = areSimilar(Cur, Color2, Color1, Accuracy).val
        /\ result.val.ret = areSimilar(Cur, Color1, Color2, Accuracy).val
        /\ result.val.ret = isSimilarTo(Cur, Color1, Color2, Box(Accuracy)).val
        /\ areSimilar(Cur, Color1, Color1, One).val
        /\ result.val.ret =>
               \A lower \in Accuracies \cup { Zero } :
                   RLe(lower, Accuracy) => areSimilar(Cur, Color1, Color2, lower).val

\* rgb(0, 0, 130) and rgb(31, 3, 9), whose y channels differ by less than
\* 0.01 and whose u channels by more, have been found not similar at the
\* accuracy 0.99.
C20_Witness ==
    /\ result.op = "areSimilar"
    /\ RgbOf(Color1) = RGB(Num(0), Num(0), Num(130))
    /\ RgbOf(Color2) = RGB(Num(31), Num(3), Num(9))
    /\ Accuracy = Frac(99, 100)
    /\ RLe(RAbs(RSub(YuvOf(Color1).y, YuvOf(Color2).y)), Frac(1, 100))
    /\ result.val.ret = FALSE

---------------------------------------------------------------------------
(* C21 *)

\* The letters A to F of a string in lower case.
LowerCase(h) ==
    [k \in 1..Len(h) |->
        CASE h[k] = "A" -> "a" [] h[k] = "B" -> "b" [] h[k] = "C" -> "c"
          [] h[k] = "D" -> "d" [] h[k] = "E" -> "e" [] h[k] = "F" -> "f"
          [] OTHER -> h[k]]

\* C21: for a string H of six hex digits, with or without a leading '#',
\* rgbToHex(hexToRgb(H)) is H without the '#' and in lower case; for an RGB
\* triple of integers 0..255, rgbToHex gives exactly six hex digits, each
\* channel padded to two, and hexToRgb(rgbToHex(rgb)) is rgb.
C21_HexRgbRoundTrip ==
    /\ result.val.via = <<"hexToRgb", "rgbToHex">> =>
           result.val.ret = LowerCase(Unhashed(result.val.arg))
    /\ (result.val.via = <<"rgbToHex">>) =>
           /\ SixHexDigits(result.val.ret)
           /\ ParseInt16(SubSeq(result.val.ret, 1, 2)) = result.val.arg.r
           /\ ParseInt16(SubSeq(result.val.ret, 3, 4)) = result.val.arg.g
           /\ ParseInt16(SubSeq(result.val.ret, 5, 6)) = result.val.arg.b
    /\ result.val.via = <<"rgbToHex", "hexToRgb">> => result.val.ret = result.val.arg

\* rgbToHex(hexToRgb('#0aF70F')) has returned '0af70f'.
C21_Witness ==
    /\ result.val.via = <<"hexToRgb", "rgbToHex">>
    /\ result.val.arg = <<"#", "0", "a", "F", "7", "0", "F">>
    /\ result.val.ret = <<"0", "a", "f", "7", "0", "f">>

---------------------------------------------------------------------------
(* C22 *)

\* C22: for an RGB triple of integers 0..255, yuvToRgb(rgbToYuv(rgb)) is
\* exactly rgb.
C22_YuvRoundTrip ==
    result.val.via = <<"rgbToYuv", "yuvToRgb">> => result.val.ret = result.val.arg

\* yuvToRgb(rgbToYuv({ r: 141, g: 187, b: 54 })) has returned (141, 187, 54).
C22_Witness ==
    /\ result.val.via = <<"rgbToYuv", "yuvToRgb">>
    /\ result.val.arg = RGB(Num(141), Num(187), Num(54))
    /\ result.val.ret = RGB(Num(141), Num(187), Num(54))

---------------------------------------------------------------------------
(* C23 *)

\* The instance toString was called on (its containers are as they were
\* before the call: rendering a cached representation writes nothing).
Rendered == colors[result.recv]

---------------------------------------------------------------------------
(* C24 *)

\* The hsl of the colour asked.
Tint == HslOf(result.recv)

Discernible == RGe(Tint.l, Frac(2, 10)) /\ RLt(Tint.l, Frac(96, 100))
RedHue == (RGe(Tint.h, Zero) /\ RLe(Tint.h, Frac(72, 1000))) \/ RGe(Tint.h, Frac(933, 1000))
GreenHue == RGe(Tint.h, Frac(23, 100)) /\ RLe(Tint.h, Frac(469, 1000))

\* C24: isRedish() is true exactly when the lightness is in [0.2, 0.96), the
\* saturation is above 0.201 and the hue is in [0, 0.072] or at least 0.933;
\* it is false for every hue when the lightness is at least 0.96 or below
\* 0.2; isGreenish() is the same with the hue band [0.23, 0.469], and no
\* colour is both.  Either throws only if reading the hsl does.
C24_RedishBands ==
    result.op \in { "isRedish", "isGreenish" } =>
        IF Threw(GetHsl(Cur, result.recv)) THEN result.status = "throw"
        ELSE /\ result.status = "ok"
             /\ result.op = "isRedish" =>
                    /\ result.val.ret = (Discernible /\ RGt(Tint.s, Frac(201, 1000)) /\ RedHue)
                    /\ (RGe(Tint.l, Frac(96, 100)) \/ RLt(Tint.l, Frac(2, 10))) =>
                           result.val.ret = FALSE
             /\ result.op = "isGreenish" =>
                    result.val.ret = (Discernible /\ RGt(Tint.s, Frac(201, 1000)) /\ GreenHue)
             /\ ~(isRedish(Cur, result.recv).val /\ isGreenish(Cur, result.recv).val)

\* isRedish() of hsl(0.933, 0.202, 0.2), on the limit of hue and lightness,
\* has returned true.
C24_Witness ==
    /\ result.op = "isRedish"
    /\ result.status = "ok"
    /\ Tint = HSL(Frac(933, 1000), Frac(202, 1000), Frac(2, 10))
    /\ result.val.ret = TRUE

---------------------------------------------------------------------------
(* C25 *)

\* The channel a blend of percentage p moves c0's channel towards: c1's
\* channel if c1 is given, otherwise 0 for a negative p and 255 for the rest.
BlendTarget(p, c1, channel) ==
    IF c1 # 0 THEN channel
    ELSE IF RLt(p, Zero) THEN Zero
    ELSE Num(255)

\* channel + round((target - channel) * |p|)
Shaded(p, channel, target) == RAdd(channel, RRound(RMul(RSub(target, channel), RAbs(p))))

\* C25: for a colour made by shadeBlend(p, c0, c1), each channel is c0's
\* channel + round((target - channel) * |p|), the target being c1's channel,
\* or without c1 255 for a positive p and 0 for a negative one; so
\* shadeBlend(0, c0) has the hex of c0, shadeBlend(1, c0) is white,
\* shadeBlend(-1, c0) is black, and with c1 and |p| = 1 the hex is c1's.
C25_ShadeBlendChannels ==
    \A i \in Own :
        made[i].op = "shadeBlend" =>
            LET p == made[i].num
                c0 == made[i].recv
                c1 == made[i].other
                to == IF c1 # 0 THEN RgbOf(c1) ELSE RGB(Zero, Zero, Zero)
            IN  /\ RgbOf(i).r = Shaded(p, RgbOf(c0).r, BlendTarget(p, c1, to.r))
                /\ RgbOf(i).g = Shaded(p, RgbOf(c0).g, BlendTarget(p, c1, to.g))
                /\ RgbOf(i).b = Shaded(p, RgbOf(c0).b, BlendTarget(p, c1, to.b))
                /\ p = Zero => GetHex(Cur, i).val = GetHex(Cur, c0).val
                /\ (p = One /\ c1 = 0) => GetHex(Cur, i).val = <<"f", "f", "f", "f", "f", "f">>
                /\ (p = Num(-1) /\ c1 = 0) => GetHex(Cur, i).val = <<"0", "0", "0", "0", "0", "0">>
                /\ (RAbs(p) = One /\ c1 # 0) => GetHex(Cur, i).val = GetHex(Cur, c1).val

---------------------------------------------------------------------------
(* C26 *)

\* The rgb and the hex of instance i, cached or read now, are the
\* conversions of its hsl.
FreshFromHsl(i) ==
    /\ RgbOf(i) = hslToRgb(HslOf(i))
    /\ GetHex(Cur, i).val = rgbToHex(hslToRgb(HslOf(i)))
    /\ ~IsNull(colors[i].rgbContainer) => Unbox(colors[i].rgbContainer) = hslToRgb(HslOf(i))
    /\ ~IsNull(colors[i].hexContainer) =>
           Unbox(colors[i].hexContainer) = rgbToHex(hslToRgb(HslOf(i)))

\* C26: the colour returned by withHue(x) has the hue x, the one returned by
\* withSaturation(x) the saturation x, the other two components being the
\* receiver's; its rgb and hex, cached or read now, are hslToRgb of that hsl
\* and rgbToHex of that rgb, whatever the receiver had cached.
C26_NoStaleCache ==
    \A i \in Own :
        /\ made[i].op = "withHue" =>
               /\ HslOf(i) = [HslOf(made[i].recv) EXCEPT !.h = made[i].num]
               /\ FreshFromHsl(i)
        /\ made[i].op = "withSaturation" =>
               /\ HslOf(i) = [HslOf(made[i].recv) EXCEPT !.s = made[i].num]
               /\ FreshFromHsl(i)

\* withHue(1/3) of the colour made by fromHex('#17a'), whose rgb was cached
\* too, has returned a colour whose hex and rgb have been read: they are
\* '11aa11' and (17, 170, 17).
C26_Witness ==
    \E i \in Own :
        /\ made[i].op = "withHue"
        /\ made[made[i].recv].op = "fromHex"
        /\ colors[made[i].recv].hexContainer = Box(<<"1", "1", "7", "7", "a", "a">>)
        /\ colors[made[i].recv].rgbContainer = Box(RGB(Num(17), Num(119), Num(170)))
        /\ colors[i].hexContainer = Box(<<"1", "1", "a", "a", "1", "1">>)
        /\ colors[i].rgbContainer = Box(RGB(Num(17), Num(170), Num(17)))

---------------------------------------------------------------------------
(* C27 *)

\* C27, as the code is: withLightness(x) writes the lightness into a clone
\* that holds a copy of the receiver's hsl and neither hex nor rgb, so the
\* colour returned has the lightness x, the receiver's hue and saturation,
\* and an rgb and a hex that, cached or read now, are the conversions of
\* that hsl, whatever the receiver had cached.
C27_WithLightnessFresh ==
    \A i \in Own :
        made[i].op = "withLightness" =>
            /\ HslOf(i) = [HslOf(made[i].recv) EXCEPT !.l = made[i].num]
            /\ FreshFromHsl(i)

\* C27, as stated: a colour returned by withLightness(x) of a receiver whose
\* hex was cached (it was made by fromHex) and whose lightness is not x
\* reports the receiver's hex, the one of the old lightness.
C27_StaleAfterWithLightness ==
    \A i \in Own :
        (/\ made[i].op = "withLightness"
         /\ made[made[i].recv].op = "fromHex"
         /\ HslOf(made[i].recv).l # made[i].num) =>
            GetHex(Cur, i).val = GetHex(Cur, made[i].recv).val

\* withLightness(3/4) of the colour made by fromHex('#17a'), whose rgb was
\* cached too, has returned a colour whose hex and rgb have been read: they
\* are '8bd1f3' and (139, 209, 243).
C27_Witness ==
    \E i \in Own :
        /\ made[i].op = "withLightness"
        /\ made[made[i].recv].op = "fromHex"
        /\ colors[made[i].recv].hexContainer = Box(<<"1", "1", "7", "7", "a", "a">>)
        /\ colors[made[i].recv].rgbContainer = Box(RGB(Num(17), Num(119), Num(170)))
        /\ colors[i].hexContainer = Box(<<"8", "b", "d", "1", "f", "3">>)
        /\ colors[i].rgbContainer = Box(RGB(Num(139), Num(209), Num(243)))

---------------------------------------------------------------------------
(* C28 *)

\* Instance i was made by fromHex, fromRGB or fromHSL (the arguments the
\* caller passes to the last two are integers in 0..255 and numbers in
\* [0, 1]), or by darken, lighten, saturate, desaturate or shiftHue from
\* such an instance.
RECURSIVE InRangeFamily(_)
InRangeFamily(i) ==
    IF made[i].op \in { "fromHex", "fromRGB", "fromHSL" } THEN TRUE
    ELSE IF made[i].op \in { "darken", "lighten", "saturate", "desaturate", "shiftHue" }
    THEN InRangeFamily(made[i].recv)
    ELSE FALSE

Unit(x) == RGe(x, Zero) /\ RLe(x, One)
Byte(x) == IsInt(x) /\ RGe(x, Zero) /\ RLe(x, Num(255))

\* C28: every colour made by fromHex, fromRGB or fromHSL, and every colour
\* reached from one by darken, lighten, saturate, desaturate and shiftHue,
\* has h, s and l in [0, 1], integer rgb channels in 0..255 and a hex of
\* exactly six hex digits.
C28_RangeInvariant ==
    \A i \in Own :
        InRangeFamily(i) =>
            /\ Unit(HslOf(i).h) /\ Unit(HslOf(i).s) /\ Unit(HslOf(i).l)
            /\ Byte(RgbOf(i).r) /\ Byte(RgbOf(i).g) /\ Byte(RgbOf(i).b)
            /\ SixHexDigits(GetHex(Cur, i).val)

---------------------------------------------------------------------------
(* C29 *)

\* The instance holds a hex, an rgb or an hsl.
Backed(c) ==
    ~IsNull(c.hexContainer) \/ ~IsNull(c.rgbContainer) \/ ~IsNull(c.hslContainer)

\* What the four accessors of instance i would return now.
Read4(S, i) ==
    [hex |-> Val(GetHex(S, i)), rgb |-> Val(GetRgb(S, i)),
     hsl |-> Val(GetHsl(S, i)), yuv |-> Val(GetYuv(S, i))]

\* The cached representations of c agree.
Agree(c) ==
    /\ (~IsNull(c.hexContainer) /\ ~IsNull(c.rgbContainer)) =>
           Unbox(c.hexContainer) = rgbToHex(Unbox(c.rgbContainer))
    /\ (~IsNull(c.yuvContainer) /\ ~IsNull(c.rgbContainer)) =>
           Unbox(c.yuvContainer) = rgbToYuv(Unbox(c.rgbContainer))

\* No step (a first read of an accessor included) changes what the four
\* accessors of an instance return.
ReadOrderIndependent ==
    [][ \A i \in 1..Len(colors) :
            Backed(colors[i]) => Read4(Cur', i) = Read4(Cur, i) ]_vars

\* C29: for an instance that holds a hex, an rgb or an hsl, what hex, rgb,
\* hsl and yuv return does not depend on which of them were read before,
\* and in every state its cached hex is rgbToHex of its cached rgb and its
\* cached yuv is rgbToYuv of its cached rgb.
C29_ReadOrderAndAgreement ==
    /\ ReadOrderIndependent
    /\ [](\A i \in 1..Len(colors) : Backed(colors[i]) => Agree(colors[i]))

---------------------------------------------------------------------------
(* C30 *)

\* The instance as it was constructed, and a read of one accessor of it by
\* a reader that runs alone.
Fresh == FromSample(Statics, result.val.sample)

ReadOf(S, i, get) ==
    CASE get = "hex" -> GetHex(S, i)
      [] get = "rgb" -> GetRgb(S, i)
      [] get = "hsl" -> GetHsl(S, i)
      [] get = "yuv" -> GetYuv(S, i)

\* The values the containers of instance i hold.
CacheOf(S, i) ==
    [hex |-> S.colors[i].hexContainer,
     rgb |-> S.colors[i].rgbContainer,
     hsl |-> IF RefOf(S.colors[i]) = 0 THEN NULL ELSE Box(S.hsls[RefOf(S.colors[i])]),
     yuv |-> S.colors[i].yuvContainer]

\* The cache after the read of get1 and then of get2, one after the other.
Sequential(get1, get2) ==
    CacheOf(ReadOf(ReadOf(Fresh.S, Fresh.val, get1).S, Fresh.val, get2).S, Fresh.val)

SameAsAlone(r) ==
    IF Threw(ReadOf(Fresh.S, Fresh.val, r.get))
    THEN r.status = "throw" /\ r.err = ReadOf(Fresh.S, Fresh.val, r.get).err
    ELSE r.status = "ok" /\ r.ret = Box(ReadOf(Fresh.S, Fresh.val, r.get).val)

\* C30: however the statements of two readers of one instance interleave,
\* each reader ends as a reader running alone on the instance as constructed
\* does (the same value, or the same error), and when both have ended the
\* containers hold what they hold after the two reads run one after the
\* other, in one order or the other.
C30_RaceIsBenign ==
    /\ \A k \in Readers : Me(k).pc = "done" => SameAsAlone(Me(k))
    /\ (Me(1).pc = "done" /\ Me(2).pc = "done") =>
           CacheOf(Cur, Raced) \in { Sequential(Me(1).get, Me(2).get),
                                     Sequential(Me(2).get, Me(1).get) }

=============================================================================
